---- MODULE Spec2Model ----
(***************************************************************************)
(* Model of the OSF simulation backend: the network clock and its tick     *)
(* pipeline (services/network_clock.py, main.py on_tick), the stored       *)
(* action queue (repositories/participant.py) and the action processor     *)
(* (services/action_processor.py) with its repositories.                   *)
(*                                                                         *)
(* Money and token quantities are integers (the smallest unit of the       *)
(* Decimal columns).  Of wall-clock time the model keeps whether the tick   *)
(* interval has elapsed since last_tick.                                   *)
(* Each asyncio task is a process whose position is a pc value; a step of  *)
(* the model is the code between two suspension points.                    *)
(***************************************************************************)
EXTENDS Integers, Sequences, FiniteSets, TLC

(***************************************************************************)
(* Bounds of the model.                                                    *)
(***************************************************************************)
MaxTicks == 2
MaxQueue == 1
MaxStored == 2
\* requests to the queue-action endpoint between two ticks
MaxSubmitted == 2
\* total_tokens of the modelled property
TotalTokens == 2
\* largest amount, number of weeks or payment in a request payload
MaxAmount == 2
\* largest balance or running total kept
MaxMoney == 3
\* weekly_rent of the modelled property
WeeklyRent == 1
\* process_action calls in a run in which the calls are counted
MaxCalls == 3
\* assignments of last_tick after which the timer is no longer reset by a
\* configuration request
MaxResets == 3
\* a capacity that subscriber mailboxes are compared with
MailboxCapacity == 1
\* entries of NPC_TEMPLATES
NumTemplates == 2
\* requests to POST /participants/ that can be in progress together
MaxLogins == 3

(***************************************************************************)
(* Program constants.                                                      *)
(***************************************************************************)
\* NetworkClock.__init__: self.current_month = 1
InitialClockMonth == 1
\* lifespan: network_state = generate_demo_state(month=0)
InitialStateMonth == 0
\* PropertyState.token_price: default=Decimal("1.00")
TokenPrice == 1
\* steps of 10^-9 token in one step of ParticipantHolding.token_amount and
\* PropertyState.tokens_available, Numeric(18, 8)
TokenScale == 10
\* steps of 10^-9 dollar in one step of Participant.balance, Numeric(15, 2)
CentScale == 10000000
\* steps of network_ownership, Numeric(5, 2), in 100 percent
OwnershipSteps == 10000
\* _handle_buy_tokens: data.get("max_price", "999999")
DefaultMaxPrice == 999999
\* _handle_sell_tokens: data.get("min_price", "0")
DefaultMinPrice == 0
\* QueueActionRequest.priority: int = 0
DefaultPriority == 0
\* ClockConfig.min_interval, ClockConfig.max_interval
MinInterval == 10
MaxInterval == 86400
\* subscribe: asyncio.Queue() has maxsize 0, which means no limit
QueueMaxsize == 0

Runners == {"loop", "force"}
Modes == {"auto", "manual", "paused"}
Stages == {"idle", "drain", "npc", "events", "month", "persist", "complete"}
ActionIds == {1}
\* PendingAction.priority values: the default and a higher one
Priorities == {DefaultPriority, 1}
\* ids that clients give the actions they submit, and the buy_tokens request
\* each of these actions carries (user_id, data.token_amount: all the tokens
\* still available once one is held)
SubmittedIds == {1, 2}
submitted_user == [id \in SubmittedIds |-> IF id = 1 THEN "p1" ELSE "p2"]
submitted_tokens == [id \in SubmittedIds |-> TotalTokens - 1]
\* ClockPreset values modelled, and PRESET_CONFIG
Presets == {"demo", "test"}
PRESET_CONFIG ==
    [preset \in Presets |->
        IF preset = "test" THEN [interval_seconds |-> 30, warning_seconds |-> 10]
        ELSE [interval_seconds |-> 300, warning_seconds |-> 60]]
\* seconds sent to set_interval: below the minimum, a valid value shorter
\* than the warning period of the default preset, and above the maximum
IntervalRequests == {5, 45, 100000}
\* external users (sim_users.id)
Users == {"u1", "u2"}
\* requests to POST /participants/
Logins == 1..MaxLogins
\* NPC_TEMPLATES, by position; a template stands for its name
Templates == 1..NumTemplates
\* callers of NPCManager.initialize: process_tick and the NPC endpoints
InitCallers == {"tick", "api"}
\* what happens to one NPC in process_tick's loop: should_act is false or the
\* participant is missing, decide_action returns None, process_action
\* returns success or failure, or an exception is raised while loading the
\* state or deciding
NpcOutcomes == {"skips", "undecided", "accepted", "rejected", "raises"}
\* the asyncio.Queue objects that subscribe() can hand out
Handles == {"s1", "s2"}
\* messages that the loop's clock_sync and the configuration requests may
\* still add to a mailbox (ticks always broadcast)
MaxMailbox == MailboxCapacity + 1
StoredIds == 1..MaxStored
Participants == {"p1", "p2"}
\* Participant.role of each modelled participant
role == [p \in Participants |-> IF p = "p2" THEN "service" ELSE "investor"]
\* payload numbers: negative, zero and positive
Amounts == -1..MaxAmount
MaxPrices == {0, DefaultMaxPrice}
MinPrices == {DefaultMinPrice, DefaultMaxPrice}
VoteChoices == {"for", "against", "abstain", "maybe"}
\* two concurrent process_action calls and the participant of each
Requests == {"a", "b"}
requester == [q \in Requests |-> IF q = "a" THEN "p1" ELSE "p2"]

\* fields of the PreComputedResults dataclass
PreComputedResultsFields ==
    {"rent_collected", "dividends_per_token", "market_change_percent", "new_valuations"}
\* attributes of `precomputed` that on_tick reads while building the snapshot
SnapshotPrecomputedReads ==
    {"total_valuation", "avg_token_price", "dividends", "rent"}

VARIABLES
    \* ---- NetworkClock ----
    current_month,      \* self.current_month
    is_processing,      \* self.is_processing
    last_tick,          \* self.last_tick, as the serial number of its assignment
    due,                \* utcnow() - self.last_tick >= interval_seconds
    mode,               \* self.config.mode
    task,               \* self._task: "none" or "running"
    pending_actions,    \* self.pending_actions, a sequence of [id, priority]
    config,             \* self.config: preset, interval_seconds, warning_seconds
    warning_active,     \* seconds_until_tick <= config.warning_seconds
    warning_sent,       \* _tick_loop's local warning_sent
    \* ---- tasks running _process_tick / on_tick ----
    pc,                 \* position of each runner in the pipeline
    loc,                \* local variables of each runner's tick
    \* ---- lifespan / store ----
    network_state_month,\* network_state.month
    db_actions,         \* pending_actions table: id -> [status, queued_for_month]
    snapshots,          \* network_snapshots.network_month values
    db_events,          \* network_events rows written by ticks (their months)
    \* ---- observation of the run ----
    invocations,        \* calls of the tick callback
    rejected,           \* flips at every tick request refused because a tick was in flight
    bus_last,           \* last tick lifecycle broadcast [event, month]; flip
                        \* changes at every such broadcast
    warned,             \* a tick_warning was broadcast since last_tick was assigned
    tick_view,          \* what was visible when the tick in flight began
    reply,              \* last answer of the queue-action endpoint
    result,             \* last ActionResult returned by process_action
    calls,              \* process_action calls made, where they are counted
    \* ---- event bus ----
    subscribers,        \* self._subscribers, a list of queue handles
    mailbox,            \* content of each queue: the events put and not yet got
    sent,               \* events broadcast since the handle subscribed that
                        \* its stream has not yet got
    gone,               \* handles for which unsubscribe has returned
    \* ---- NPC manager ----
    npc_rows,           \* participants rows with each template's name (a count)
    brains,             \* keys of self.brains in insertion order: [name, row]
    initialized,        \* self._initialized
    init_call,          \* position of each initialize() call in progress
    npc_run,            \* position of the process_tick call in progress
    \* ---- participant service ----
    user_rows,          \* participants rows with each user_id (a count)
    login,              \* position of each get_or_create_participant call
    granted,            \* per user, the participants that calls have returned
    \* ---- one participant's trades, in stored precision ----
    trip,               \* the rows of a participant who buys and then sells,
                        \* in units of 10^-9 token and 10^-9 dollar
    \* ---- one property's rental state ----
    lease,              \* PropertyState.status, tenant_id and lease_end_month,
                        \* and the last outcome of collect_rent and pay_rent
    \* ---- event generator ----
    econ,               \* EventGenerator.economic_state and the generate_events
                        \* call in progress
    runs,               \* two runs of the simulation given the same requests
    \* ---- participants, holdings and the property state (one property) ----
    balance,            \* Participant.balance
    total_invested,     \* Participant.total_invested
    holding,            \* ParticipantHolding.token_amount (0: no row)
    tokens_available,   \* PropertyState.tokens_available
    network_ownership,  \* PropertyState.network_ownership, a Numeric(5, 2), in
                        \* hundredths
    tenant_id,          \* PropertyState.tenant_id ("none": NULL, status available)
    total_rent_collected,   \* PropertyState.total_rent_collected
    total_dividends_paid,   \* PropertyState.total_dividends_paid, in thousandths
    \* ---- concurrent process_action calls ----
    req,                \* each call's position and the values its session loaded
    ledger0             \* the ledger when the concurrent calls were issued

timerVars == <<config, warning_active, warning_sent, warned>>
clockVars == <<current_month, is_processing, last_tick, due, mode, task, pending_actions,
               timerVars>>
tickVars == <<pc, loc>>
storeVars == <<network_state_month, db_actions, snapshots, db_events>>
obsVars == <<invocations, rejected, bus_last, tick_view>>

ledgerVars == <<balance, total_invested, holding, tokens_available, network_ownership,
                tenant_id, total_rent_collected, total_dividends_paid>>
reqVars == <<req, ledger0>>
answerVars == <<reply, result, calls>>
busVars == <<subscribers, mailbox, sent, gone>>
npcVars == <<npc_rows, brains, initialized, init_call, npc_run>>
authVars == <<user_rows, login, granted>>
extraVars == <<lease, econ, runs>>
sideVars == <<npcVars, authVars, trip, extraVars>>
\* what no step of the clock touches
moneyVars == <<ledgerVars, reqVars, answerVars, sideVars>>
\* ... and the event bus, which only a broadcast touches
tradeVars == <<moneyVars, busVars>>

vars == <<clockVars, tickVars, storeVars, obsVars, tradeVars>>

----------------------------------------------------------------------------
(***************************************************************************)
(* Helpers                                                                 *)
(***************************************************************************)
RECURSIVE InsertByPriority(_, _)
\* insert x after every element whose priority is >= x's (stable)
InsertByPriority(x, s) ==
    IF s = <<>> THEN <<x>>
    ELSE IF Head(s).priority >= x.priority
         THEN <<Head(s)>> \o InsertByPriority(x, Tail(s))
         ELSE <<x>> \o s

\* the queue handed over as it is
SortedByPriority_QueueOrder(s) == s

RECURSIVE SortedByPriority(_)
\* sorted(self.pending_actions, key=lambda a: -a.priority): stable, highest first
SortedByPriority(s) ==
    IF s = <<>> THEN <<>>
    ELSE InsertByPriority(s[Len(s)], SortedByPriority(SubSeq(s, 1, Len(s) - 1)))

\* NetworkClock.seconds_until_tick
seconds_until_tick == IF due THEN 0 ELSE 1

RECURSIVE IdsAscending(_)
IdsAscending(S) ==
    IF S = {} THEN <<>>
    ELSE LET m == CHOOSE x \in S : \A y \in S : x <= y
         IN <<m>> \o IdsAscending(S \ {m})

\* ParticipantRepository.get_pending_actions(network_month): status pending,
\* queued for that month, ordered by priority desc then queued_at; every
\* stored row has the default priority and ids are handed out in queue order.
get_pending_actions(month) ==
    IdsAscending({a \in StoredIds : /\ db_actions[a].status = "pending"
                                    /\ db_actions[a].queued_for_month = month})

NoRow == [status |-> "none", queued_for_month |-> 0]
FreeIds == {a \in StoredIds : db_actions[a].status = "none"}
FreshId == CHOOSE a \in FreeIds : \A b \in FreeIds : a <= b

\* ParticipantRepository.queue_action followed by the session's commit
StoredAfterQueue(table, month) ==
    [table EXCEPT ![FreshId] = [status |-> "pending", queued_for_month |-> month]]

IdleLoc ==
    [next_month |-> 0, actions |-> <<>>, db_pending |-> <<>>, drained |-> 0,
     session_done |-> {}, generated_events |-> 0, result_month |-> 0,
     step_failed |-> FALSE, wrote |-> FALSE]

InFlight == {r \in Runners : pc[r] # "idle"}

\* ClockConfig.from_preset
from_preset(preset) ==
    [preset |-> preset,
     interval_seconds |-> PRESET_CONFIG[preset].interval_seconds,
     warning_seconds |-> PRESET_CONFIG[preset].warning_seconds]

\* NetworkClock.warning_active right after last_tick = utcnow(): a whole
\* interval is left
warning_active_at_reset(cfg) == cfg.interval_seconds <= cfg.warning_seconds

\* the handles in the list self._subscribers
Subscribed == {subscribers[i] : i \in 1..Len(subscribers)}

\* asyncio.Queue.put_nowait on a queue of maxsize 1, inside _broadcast's
\* `except asyncio.QueueFull: pass`
put_nowait_Maxsize1(q, message) == IF Len(q) >= 1 THEN q ELSE Append(q, message)

\* asyncio.Queue.put_nowait inside _broadcast's `except asyncio.QueueFull:
\* pass`: QueueFull is raised only when maxsize > 0 and the queue holds
\* maxsize items, and then the message is not put
put_nowait(q, message) ==
    IF QueueMaxsize > 0 /\ Len(q) >= QueueMaxsize THEN q ELSE Append(q, message)

\* put_nowait of each of `events` in turn
RECURSIVE put_all(_, _)
put_all(q, events) ==
    IF events = <<>> THEN q
    ELSE put_all(put_nowait(q, Head(events)), Tail(events))

\* NetworkClock._broadcast of each of `events` in turn: put_nowait into the
\* queue of every subscriber
Deliver(events) ==
    /\ mailbox' = [h \in Handles |->
                      IF h \in Subscribed THEN put_all(mailbox[h], events)
                      ELSE mailbox[h]]
    /\ sent' = [h \in Handles |->
                   IF h \in Subscribed THEN sent[h] \o events ELSE sent[h]]
    /\ UNCHANGED <<subscribers, gone>>

\* a broadcast outside a tick, while the mailboxes are within the bound
DeliverCapped(events) ==
    /\ \A h \in Subscribed : Len(mailbox[h]) < MaxMailbox
    /\ Deliver(events)

\* list.remove that removes nothing
list_remove_NotApplied(s, x) == s

\* list.remove(x): the first occurrence of x is removed
RECURSIVE list_remove(_, _)
list_remove(s, x) ==
    IF s = <<>> THEN s
    ELSE IF Head(s) = x THEN Tail(s)
    ELSE <<Head(s)>> \o list_remove(Tail(s), x)

\* an initialize() call that is not running
IdleInit == [pc |-> "idle", template |-> 0]
\* the rows a trade reads and writes: Participant.balance, the holding row
\* (has_row: it exists), PropertyState.tokens_available and network_ownership
NoRows == [balance |-> 0, has_row |-> FALSE, token_amount |-> 0,
           tokens_available |-> 0, network_ownership |-> 0]
\* no participant is trading
\* a property that was never let: status available, tenant and lease NULL (0)
NoLease ==
    [status |-> "available", tenant_id |-> "none", lease_end_month |-> 0,
     collect_rent |-> "none", pay_rent |-> "none"]

\* MarketConditions.seller_confidence, the initial consumer_confidence
InitialConfidence == 65

\* EventGenerator.__init__: expansion, months_in_phase 0; no call in progress
InitialEconomy ==
    [phase |-> "expansion", months_in_phase |-> 0,
     consumer_confidence |-> InitialConfidence,
     pc |-> "idle", network_month |-> 0, has_properties |-> FALSE, events |-> <<>>]

RunIds == {1, 2}

\* what a run has produced at the start: the economic state of
\* EventGenerator.__init__, no NPC decision and no market change yet
InitialRun ==
    [phase |-> "expansion", months_in_phase |-> 0,
     consumer_confidence |-> InitialConfidence,
     acted |-> FALSE, market_change_percent |-> 0]

IdleTrip == [pc |-> "idle", ties_up |-> FALSE, rows |-> NoRows, before |-> NoRows,
             bought |-> 0, sold |-> 0]
\* a get_or_create_participant call that is not running
IdleLogin == [pc |-> "idle", user |-> "", participant |-> 0]
\* a process_tick call that is not running
IdleRun == [pc |-> "idle", idx |-> 0, size |-> 0, handled |-> {}, submitted |-> {}]

\* no tick in flight
IdleView == [state_month |-> 0, clock_pending |-> {}]
\* the month of the network state and the stored actions pending for the
\* clock's month, as a reader sees them when a tick begins
ViewAtStart ==
    [state_month |-> network_state_month,
     clock_pending |-> {a \in StoredIds : /\ db_actions[a].status = "pending"
                                          /\ db_actions[a].queued_for_month = current_month}]


----------------------------------------------------------------------------
(***************************************************************************)
(* Initial state: NetworkClock.__init__, lifespan up to clock.start()      *)
(***************************************************************************)
ClockInit ==
    /\ current_month = InitialClockMonth
    /\ is_processing = FALSE
    /\ last_tick = 0
    /\ due = FALSE
    /\ mode = "auto"
    /\ task = "running"
    /\ pending_actions = <<>>
    /\ config = from_preset("demo")
    /\ warning_active = FALSE
    /\ warning_sent = FALSE
    /\ warned = FALSE
    /\ tick_view = IdleView
    /\ pc = [r \in Runners |-> "idle"]
    /\ loc = [r \in Runners |-> IdleLoc]
    /\ network_state_month = InitialStateMonth
    /\ db_actions = [a \in StoredIds |-> NoRow]
    /\ snapshots = {}
    /\ db_events = {}
    /\ invocations = 0
    /\ rejected = FALSE
    /\ bus_last = [event |-> "none", month |-> 0, flip |-> FALSE]
    /\ subscribers = <<>>
    /\ mailbox = [h \in Handles |-> <<>>]
    /\ sent = [h \in Handles |-> <<>>]
    /\ gone = {}
    /\ npc_rows = [t \in Templates |-> 0]
    /\ brains = <<>>
    /\ initialized = FALSE
    /\ init_call = [c \in InitCallers |-> IdleInit]
    /\ npc_run = IdleRun
    /\ user_rows = [u \in Users |-> 0]
    /\ login = [c \in Logins |-> IdleLogin]
    /\ granted = [u \in Users |-> {}]
    /\ trip = IdleTrip
    /\ lease = NoLease
    /\ econ = InitialEconomy
    /\ runs = [i \in RunIds |-> InitialRun]

----------------------------------------------------------------------------
(***************************************************************************)
(* NetworkClock: tick processing                                           *)
(***************************************************************************)
\* NetworkClock._broadcast of a tick lifecycle event (no on_broadcast
\* callback is registered, so the call never suspends)
Broadcast(event, month) == [event |-> event, month |-> month, flip |-> ~bus_last.flip]

\* BeginTick without line 440 (self.is_processing = True)
BeginTick_FlagNotSet(r) ==
    /\ invocations < MaxTicks
    /\ is_processing' = is_processing
    /\ bus_last' = Broadcast("processing_started", current_month + 1)
    /\ invocations' = invocations + 1
    /\ pc' = [pc EXCEPT ![r] = "drain"]
    /\ loc' = [loc EXCEPT ![r] =
                 [IdleLoc EXCEPT !.next_month = current_month + 1,
                                 !.actions = SortedByPriority(pending_actions),
                                 !.db_pending = get_pending_actions(network_state_month)]]
    /\ tick_view' = ViewAtStart
    /\ Deliver(IF r = "loop" /\ ~warning_sent
               THEN <<"tick_warning", "processing_started">>
               ELSE <<"processing_started">>)
    /\ UNCHANGED <<current_month, last_tick, due, mode, task, pending_actions,
                   config, warning_active, storeVars, moneyVars>>

\* _process_tick, from taking the flag to the first suspension point inside
\* the callback: set is_processing, broadcast processing_started, sort the
\* queue, call on_tick, which issues get_pending_actions(network_state.month)
BeginTick(r) ==
    /\ invocations < MaxTicks
    /\ is_processing' = TRUE
    /\ bus_last' = Broadcast("processing_started", current_month + 1)
    /\ invocations' = invocations + 1
    /\ pc' = [pc EXCEPT ![r] = "drain"]
    /\ loc' = [loc EXCEPT ![r] =
                 [IdleLoc EXCEPT !.next_month = current_month + 1,
                                 !.actions = SortedByPriority(pending_actions),
                                 !.db_pending = get_pending_actions(network_state_month)]]
    /\ tick_view' = ViewAtStart
    /\ Deliver(IF r = "loop" /\ ~warning_sent
               THEN <<"tick_warning", "processing_started">>
               ELSE <<"processing_started">>)
    /\ UNCHANGED <<current_month, last_tick, due, mode, task, pending_actions,
                   config, warning_active, storeVars, moneyVars>>

\* NetworkClock._process_tick: under the lock, return if a tick is in flight
ProcessTick(r) ==
    IF is_processing
    THEN UNCHANGED <<current_month, is_processing, last_tick, due, mode, task,
                     pending_actions, config, warning_active,
                     tickVars, storeVars, tradeVars, invocations, bus_last, tick_view>>
    ELSE BeginTick(r)

\* NetworkClock._tick_loop: one iteration that finds the warning period
\* begun and the tick not yet due
LoopWarn ==
    /\ task = "running"
    /\ pc["loop"] = "idle"
    /\ mode = "auto"
    /\ warning_active
    /\ seconds_until_tick > 0
    /\ ~warning_sent
    /\ ~is_processing
    /\ warned' = TRUE
    /\ warning_sent' = TRUE
    /\ DeliverCapped(<<"tick_warning">>)
    /\ UNCHANGED <<current_month, is_processing, last_tick, due, mode, task,
                   pending_actions, config, warning_active,
                   tickVars, storeVars, obsVars, moneyVars>>

\* LoopTick without the two mode tests at the head of the loop
LoopTick_ModeNotTested ==
    /\ task = "running"
    /\ pc["loop"] = "idle"
    /\ seconds_until_tick <= 0
    /\ ~is_processing
    /\ warned' = (warned \/ ~warning_sent)
    /\ warning_sent' = TRUE
    /\ ProcessTick("loop")
    /\ UNCHANGED rejected

\* NetworkClock._tick_loop: one iteration that finds the tick due; it
\* broadcasts tick_warning first when warning_sent is not set
LoopTick ==
    /\ task = "running"
    /\ pc["loop"] = "idle"
    /\ mode = "auto"
    /\ seconds_until_tick <= 0
    /\ ~is_processing
    /\ warned' = (warned \/ ~warning_sent)
    /\ warning_sent' = TRUE
    /\ ProcessTick("loop")
    /\ UNCHANGED rejected

\* POST /network/clock/force-tick
ForceTick ==
    IF is_processing
    THEN /\ rejected' = ~rejected
         /\ UNCHANGED <<clockVars, tickVars, storeVars, tradeVars, invocations, bus_last,
                        tick_view>>
    ELSE /\ pc["force"] = "idle"
         /\ ProcessTick("force")
         /\ UNCHANGED <<rejected, warning_sent, warned>>

(***************************************************************************)
(* on_tick (main.py): the pipeline stages                                  *)
(***************************************************************************)
\* one iteration of the drain loop: process_action commits in its own
\* session (a stored action is a vote: accepted, it queues a new pending row
\* for network_state.month; ok = FALSE: it returns success=False),
\* complete_action marks the row in the drain's still uncommitted session
DrainStep(r, ok) ==
    /\ pc[r] = "drain"
    /\ loc[r].drained < Len(loc[r].db_pending)
    /\ LET a == loc[r].db_pending[loc[r].drained + 1] IN
       /\ ok => (FreeIds # {} /\ \E p \in Participants : holding[p] > 0)
       /\ db_actions' = IF ok THEN StoredAfterQueue(db_actions, network_state_month)
                        ELSE db_actions
       /\ loc' = [loc EXCEPT ![r].drained = @ + 1,
                             ![r].session_done =
                                 @ \cup {[id |-> a,
                                          status |-> IF ok THEN "completed" ELSE "failed"]},
                             ![r].wrote = @ \/ ok]
    /\ UNCHANGED <<clockVars, pc, network_state_month, snapshots,
                   db_events, obsVars, tradeVars>>

\* the rows changed by complete_action in a session
StatusesApplied(table, done) ==
    [a \in StoredIds |->
        IF \E d \in done : d.id = a
        THEN [table[a] EXCEPT !.status = (CHOOSE d \in done : d.id = a).status]
        ELSE table[a]]

\* end of the drain loop: session.commit() makes the statuses durable
DrainCommit(r) ==
    /\ pc[r] = "drain"
    /\ loc[r].drained = Len(loc[r].db_pending)
    /\ db_actions' = StatusesApplied(db_actions, loc[r].session_done)
    /\ loc' = [loc EXCEPT ![r].wrote = @ \/ loc[r].session_done # {},
                          ![r].session_done = {},
                          ![r].drained = 0]
    /\ pc' = [pc EXCEPT ![r] = "npc"]
    /\ UNCHANGED <<clockVars, network_state_month, snapshots, db_events, obsVars,
                   tradeVars>>

\* an exception inside the drain: the session is rolled back, the error is
\* logged (db_action_processing_failed) and the pipeline goes on
DrainFail(r) ==
    /\ pc[r] = "drain"
    /\ loc' = [loc EXCEPT ![r].session_done = {},
                          ![r].drained = 0,
                          ![r].step_failed = TRUE]
    /\ pc' = [pc EXCEPT ![r] = "npc"]
    /\ UNCHANGED <<clockVars, storeVars, tradeVars, obsVars>>

\* npc_manager.process_tick: each NPC action is committed by the action
\* processor in its own session (acted: at least one was); an exception is
\* logged (npc_processing_failed)
NpcStage(r, acted, ok) ==
    /\ pc[r] = "npc"
    /\ loc' = [loc EXCEPT ![r].wrote = @ \/ acted,
                          ![r].step_failed = @ \/ ~ok]
    /\ pc' = [pc EXCEPT ![r] = "events"]
    /\ UNCHANGED <<clockVars, storeVars, tradeVars, obsVars>>

\* event_generator.generate_events: the events are kept in memory; an
\* exception is logged (event_generation_failed) and leaves generated_events
\* empty
EventStage(r, ok) ==
    /\ pc[r] = "events"
    /\ loc' = [loc EXCEPT ![r].generated_events = IF ok THEN 1 ELSE 0,
                          ![r].step_failed = @ \/ ~ok]
    /\ pc' = [pc EXCEPT ![r] = "month"]
    /\ UNCHANGED <<clockVars, storeVars, tradeVars, obsVars>>

\* BatchProcessor.process_month: next_month = state.month + 1
process_month(state_month) == state_month + 1

\* generate_demo_precomputed, processor.process_month and the update of the
\* in-memory network state
MonthStage(r) ==
    /\ pc[r] = "month"
    /\ loc' = [loc EXCEPT ![r].result_month = process_month(network_state_month)]
    /\ network_state_month' = process_month(network_state_month)
    /\ pc' = [pc EXCEPT ![r] = "persist"]
    /\ UNCHANGED <<clockVars, db_actions, snapshots, db_events, obsVars, tradeVars>>

\* TickFailed without the finally clause
TickFailed_NoFinally(r) ==
    /\ bus_last' = Broadcast("processing_failed", current_month + 1)
    /\ is_processing' = is_processing
    /\ pc' = [pc EXCEPT ![r] = "idle"]
    /\ loc' = [loc EXCEPT ![r] = IdleLoc]
    /\ tick_view' = IdleView
    \* back in _tick_loop: warning_sent = False
    /\ warning_sent' = IF r = "loop" THEN FALSE ELSE warning_sent
    /\ Deliver(<<"processing_failed">>)
    /\ UNCHANGED <<current_month, last_tick, due, mode, task, pending_actions,
                   config, warning_active, warned,
                   storeVars, moneyVars, invocations, rejected>>

\* _process_tick: except Exception -> broadcast processing_failed;
\* finally -> is_processing = False
TickFailed_AdvancesMonth(r) ==
    /\ bus_last' = Broadcast("processing_failed", current_month + 1)
    /\ is_processing' = FALSE
    /\ pc' = [pc EXCEPT ![r] = "idle"]
    /\ loc' = [loc EXCEPT ![r] = IdleLoc]
    /\ tick_view' = IdleView
    /\ warning_sent' = IF r = "loop" THEN FALSE ELSE warning_sent
    /\ current_month' = loc[r].next_month
    /\ Deliver(<<"processing_failed">>)
    /\ UNCHANGED <<last_tick, due, mode, task, pending_actions,
                   config, warning_active, warned,
                   storeVars, moneyVars, invocations, rejected>>

TickFailed(r) ==
    /\ bus_last' = Broadcast("processing_failed", current_month + 1)
    /\ is_processing' = FALSE
    /\ pc' = [pc EXCEPT ![r] = "idle"]
    /\ loc' = [loc EXCEPT ![r] = IdleLoc]
    /\ tick_view' = IdleView
    \* back in _tick_loop: warning_sent = False
    /\ warning_sent' = IF r = "loop" THEN FALSE ELSE warning_sent
    /\ Deliver(<<"processing_failed">>)
    /\ UNCHANGED <<current_month, last_tick, due, mode, task, pending_actions,
                   config, warning_active, warned,
                   storeVars, moneyVars, invocations, rejected>>

\* an exception in the part of on_tick that no try block covers: building
\* the precomputed results and process_month (before the state month moves),
\* or the tick_handler_completed log line and result.to_dict() after the
\* persist block (result.governor_summary[:100], len(result.events) on what
\* the language model returned)
OnTickRaises(r) ==
    /\ pc[r] \in {"month", "complete"}
    /\ TickFailed(r)

\* the snapshot arguments are evaluated before create_snapshot is called:
\* reading an attribute the dataclass does not have raises AttributeError
SnapshotArgsEvaluate == SnapshotPrecomputedReads \subseteq PreComputedResultsFields

\* "Persist to database": create_snapshot, create_event, session.commit();
\* any exception is logged (tick_persistence_failed) and the session is
\* closed without a commit
PersistStage(r) ==
    /\ pc[r] = "persist"
    /\ LET m == loc[r].result_month
           ok == SnapshotArgsEvaluate /\ m \notin snapshots
           hasEvents == loc[r].generated_events > 0 \/ Len(loc[r].actions) > 0
       IN /\ snapshots' = IF ok THEN snapshots \cup {m} ELSE snapshots
          /\ db_events' = IF ok /\ hasEvents THEN db_events \cup {m} ELSE db_events
          /\ loc' = [loc EXCEPT ![r].step_failed = @ \/ ~ok,
                                ![r].wrote = @ \/ ok,
                                \* the locals below are not read again
                                ![r].generated_events = 0,
                                ![r].result_month = 0]
    /\ pc' = [pc EXCEPT ![r] = "complete"]
    /\ UNCHANGED <<clockVars, network_state_month, db_actions, obsVars, tradeVars>>

\* on_tick returns; _process_tick: advance the month, clear the queue,
\* broadcast month_completed; finally -> is_processing = False
CompleteTick(r) ==
    /\ pc[r] = "complete"
    /\ current_month' = loc[r].next_month
    /\ last_tick' = last_tick + 1
    /\ due' = FALSE
    /\ pending_actions' = <<>>
    /\ bus_last' = Broadcast("month_completed", loc[r].next_month)
    /\ is_processing' = FALSE
    /\ pc' = [pc EXCEPT ![r] = "idle"]
    /\ loc' = [loc EXCEPT ![r] = IdleLoc]
    /\ tick_view' = IdleView
    /\ warning_active' = warning_active_at_reset(config)
    /\ warned' = FALSE
    \* back in _tick_loop: warning_sent = False
    /\ warning_sent' = IF r = "loop" THEN FALSE ELSE warning_sent
    /\ Deliver(<<"month_completed">>)
    /\ UNCHANGED <<mode, task, config, storeVars, moneyVars, invocations, rejected>>

(***************************************************************************)
(* NetworkClock: lifecycle, configuration, queue                           *)
(***************************************************************************)
\* NetworkClock.start
Start ==
    /\ task = "none"
    /\ mode' = "auto"
    /\ task' = "running"
    /\ warning_sent' = FALSE
    /\ DeliverCapped(<<"clock_started">>)
    /\ UNCHANGED <<current_month, is_processing, last_tick, due, pending_actions,
                   config, warning_active, warned,
                   tickVars, storeVars, moneyVars, obsVars>>

\* NetworkClock.stop: cancel the loop task and wait for it.  CancelledError
\* is raised at the task's suspension point; inside _process_tick it passes
\* `except Exception` (no broadcast) and runs `finally`; open sessions are
\* closed without a commit.
Stop ==
    /\ task = "running" \/ mode # "paused"
    /\ IF task = "running" /\ pc["loop"] # "idle"
       THEN /\ is_processing' = FALSE
            /\ pc' = [pc EXCEPT !["loop"] = "idle"]
            /\ loc' = [loc EXCEPT !["loop"] = IdleLoc]
            /\ tick_view' = IdleView
       ELSE UNCHANGED <<is_processing, pc, loc, tick_view>>
    /\ task' = "none"
    /\ mode' = "paused"
    \* the loop's local dies with the task
    /\ warning_sent' = FALSE
    /\ DeliverCapped(<<"clock_stopped">>)
    /\ UNCHANGED <<current_month, last_tick, due, pending_actions,
                   config, warning_active, warned,
                   storeVars, moneyVars, invocations, rejected, bus_last>>

\* self.last_tick = datetime.utcnow() under configuration cfg: a new
\* countdown of cfg.interval_seconds begins
ResetTimer(cfg) ==
    /\ last_tick < MaxResets
    /\ last_tick' = last_tick + 1
    /\ due' = FALSE
    /\ warning_active' = warning_active_at_reset(cfg)
    /\ warned' = FALSE

\* NetworkClock.set_preset: a fresh ClockConfig (its mode is the default,
\* auto) replaces the configuration and the timer is reset
SetPreset(preset) ==
    /\ config' = from_preset(preset)
    /\ mode' = "auto"
    /\ ResetTimer(from_preset(preset))
    /\ DeliverCapped(<<"config_changed">>)
    /\ UNCHANGED <<current_month, is_processing, task, pending_actions, warning_sent,
                   tickVars, storeVars, moneyVars, obsVars>>

\* set_interval's clamp: max(min_interval, min(max_interval, seconds))
clamp_interval(seconds) ==
    IF seconds < MinInterval THEN MinInterval
    ELSE IF seconds > MaxInterval THEN MaxInterval
    ELSE seconds

\* NetworkClock.set_interval
SetInterval(seconds) ==
    LET cfg == [config EXCEPT !.interval_seconds = clamp_interval(seconds),
                              !.preset = "demo"]
    IN /\ config' = cfg
       /\ ResetTimer(cfg)
       /\ DeliverCapped(<<"config_changed">>)
       /\ UNCHANGED <<current_month, is_processing, mode, task, pending_actions,
                      warning_sent, tickVars, storeVars, moneyVars, obsVars>>

\* NetworkClock.set_mode: the timer is reset when the mode becomes auto
SetMode(m) ==
    /\ mode' = m
    /\ IF m = "auto" /\ mode # "auto"
       THEN ResetTimer(config)
       ELSE UNCHANGED <<last_tick, due, warning_active, warned>>
    /\ DeliverCapped(<<"mode_changed">>)
    /\ UNCHANGED <<current_month, is_processing, task, pending_actions, config,
                   warning_sent, tickVars, storeVars, moneyVars, obsVars>>

\* NetworkClock.pause
Pause ==
    /\ mode' = "paused"
    /\ DeliverCapped(<<"clock_paused">>)
    /\ UNCHANGED <<current_month, is_processing, last_tick, due, task, pending_actions,
                   timerVars, tickVars, storeVars, moneyVars, obsVars>>

\* NetworkClock.resume
Resume ==
    /\ mode' = "auto"
    /\ ResetTimer(config)
    /\ DeliverCapped(<<"clock_resumed">>)
    /\ UNCHANGED <<current_month, is_processing, task, pending_actions, config,
                   warning_sent, tickVars, storeVars, moneyVars, obsVars>>

(***************************************************************************)
(* NPCManager (services/npc_system.py).  Each step runs from one await to  *)
(* the next; create, flush and commit of a row are one step.  The balances *)
(* of the NPC participants are not among the modelled participants: of a   *)
(* submitted action only the result is kept.                               *)
(***************************************************************************)
\* everything but the NPC manager
AllButNpc ==
    <<clockVars, tickVars, storeVars, obsVars, busVars, ledgerVars, reqVars, answerVars,
      authVars, trip, extraVars>>

\* self.brains[npc_id] = NPCBrain(profile): a new key goes to the end
brains_set(d, key) ==
    IF \E i \in 1..Len(d) : d[i] = key THEN d ELSE Append(d, key)

\* initialize goes on after template t: the next get_by_name is issued, or
\* the loop is over and _initialized is set
InitAdvance(c, t) ==
    IF t < NumTemplates
    THEN /\ init_call' = [init_call EXCEPT ![c] = [pc |-> "lookup", template |-> t + 1]]
         /\ UNCHANGED initialized
    ELSE /\ init_call' = [init_call EXCEPT ![c] = [pc |-> "returned", template |-> 0]]
         /\ initialized' = TRUE

\* NPCManager.initialize is called: it returns at once when _initialized is
\* set, else it issues get_by_name for the first template
InitBegin(c) ==
    /\ init_call[c].pc = "idle"
    /\ init_call' = [init_call EXCEPT ![c] =
                        IF initialized THEN [pc |-> "returned", template |-> 0]
                        ELSE [pc |-> "lookup", template |-> 1]]
    /\ UNCHANGED <<npc_rows, brains, initialized>>

\* get_by_name returns (scalar_one_or_none): no row -> create is issued; one
\* row -> its id keys the brain; several rows -> MultipleResultsFound
InitLookup(c) ==
    /\ init_call[c].pc = "lookup"
    /\ LET t == init_call[c].template IN
       IF npc_rows[t] = 0
       THEN /\ init_call' = [init_call EXCEPT ![c].pc = "create"]
            /\ UNCHANGED <<npc_rows, brains, initialized>>
       ELSE IF npc_rows[t] = 1
       THEN /\ brains' = brains_set(brains, [name |-> t, row |-> 1])
            /\ InitAdvance(c, t)
            /\ UNCHANGED npc_rows
       ELSE /\ init_call' = [init_call EXCEPT ![c] = [pc |-> "raised", template |-> 0]]
            /\ UNCHANGED <<npc_rows, brains, initialized>>

\* participant_repo.create and session.commit(): a new row, whose id keys
\* the brain
InitCreate(c) ==
    /\ init_call[c].pc = "create"
    /\ LET t == init_call[c].template IN
       /\ npc_rows' = [npc_rows EXCEPT ![t] = @ + 1]
       /\ brains' = brains_set(brains, [name |-> t, row |-> npc_rows[t] + 1])
       /\ InitAdvance(c, t)

\* GET /network/npcs and the other NPC endpoints: await initialize()
ApiInitBegin ==
    /\ InitBegin("api")
    /\ UNCHANGED <<AllButNpc, npc_run>>

\* the endpoint's initialize() call goes on by one step
ApiInitStep ==
    /\ InitLookup("api") \/ InitCreate("api")
    /\ UNCHANGED <<AllButNpc, npc_run>>

\* the endpoint answers (list_npcs catches an exception and answers [])
ApiInitEnd ==
    /\ init_call["api"].pc \in {"returned", "raised"}
    /\ init_call' = [init_call EXCEPT !["api"] = IdleInit]
    /\ UNCHANGED <<AllButNpc, npc_rows, brains, initialized, npc_run>>

\* NPCManager.process_tick is called: initialize() first when _initialized
\* is not set, else the loop over self.brains.items() begins
NpcTickBegin ==
    /\ npc_run.pc = "idle"
    /\ init_call["tick"].pc = "idle"
    /\ IF initialized
       THEN /\ npc_run' = [IdleRun EXCEPT !.pc = "loop", !.idx = 1, !.size = Len(brains)]
            /\ UNCHANGED <<npc_rows, brains, initialized, init_call>>
       ELSE /\ npc_run' = [IdleRun EXCEPT !.pc = "init"]
            /\ InitBegin("tick")
    /\ UNCHANGED AllButNpc

\* process_tick's initialize() call goes on by one step
NpcTickInitStep ==
    /\ npc_run.pc = "init"
    /\ InitLookup("tick") \/ InitCreate("tick")
    /\ UNCHANGED <<AllButNpc, npc_run>>

\* process_tick's initialize() call has returned and the loop begins, or it
\* has raised and so does process_tick
NpcTickInitEnd ==
    /\ npc_run.pc = "init"
    /\ init_call["tick"].pc \in {"returned", "raised"}
    /\ npc_run' = IF init_call["tick"].pc = "returned"
                  THEN [IdleRun EXCEPT !.pc = "loop", !.idx = 1, !.size = Len(brains)]
                  ELSE [IdleRun EXCEPT !.pc = "failed"]
    /\ init_call' = [init_call EXCEPT !["tick"] = IdleInit]
    /\ UNCHANGED <<AllButNpc, npc_rows, brains, initialized>>

\* one iteration of `for npc_id, brain in self.brains.items()`: the
\* iterator raises RuntimeError when the dict has grown; past the last brain
\* the session is committed and process_tick returns; an exception in the
\* body leaves process_tick (on_tick logs npc_processing_failed)
NpcHandle(outcome) ==
    /\ npc_run.pc = "loop"
    /\ npc_run' =
          IF Len(brains) # npc_run.size THEN [npc_run EXCEPT !.pc = "failed"]
          ELSE IF npc_run.idx > Len(brains) THEN [npc_run EXCEPT !.pc = "returned"]
          ELSE LET npc == brains[npc_run.idx] IN
               [npc_run EXCEPT
                  !.pc = IF outcome = "raises" THEN "failed" ELSE "loop",
                  !.idx = @ + 1,
                  !.handled = @ \cup {npc},
                  !.submitted = IF outcome \in {"accepted", "rejected"}
                                THEN @ \cup {npc} ELSE @]
    /\ UNCHANGED <<AllButNpc, npc_rows, brains, initialized, init_call>>

\* on_tick goes on after process_tick has returned or raised
NpcTickEnd ==
    /\ npc_run.pc \in {"returned", "failed"}
    /\ npc_run' = IdleRun
    /\ UNCHANGED <<AllButNpc, npc_rows, brains, initialized, init_call>>

\* the NPC manager under ticks and endpoint requests
NpcNext ==
    \/ ApiInitBegin
    \/ ApiInitStep
    \/ ApiInitEnd
    \/ NpcTickBegin
    \/ NpcTickInitStep
    \/ NpcTickInitEnd
    \/ \E outcome \in NpcOutcomes : NpcHandle(outcome)
    \/ NpcTickEnd

(***************************************************************************)
(* Participant service (services/participant_service.py).  A participant   *)
(* of a user is named by its position among the rows with that user_id.    *)
(***************************************************************************)
\* everything but the participant service
AllButAuth ==
    <<clockVars, tickVars, storeVars, obsVars, busVars, ledgerVars, reqVars, answerVars,
      npcVars, trip, extraVars>>

\* POST /participants/ calls get_or_create_participant(user_id), which
\* issues get_by_user_id
LoginBegin(c, u) ==
    /\ login[c].pc = "idle"
    /\ login' = [login EXCEPT ![c] = [pc |-> "lookup", user |-> u, participant |-> 0]]
    /\ UNCHANGED <<user_rows, granted, AllButAuth>>

\* get_by_user_id returns (scalar_one_or_none): no row -> create is issued;
\* one row -> it is returned; several rows -> MultipleResultsFound
LoginLookup(c) ==
    /\ login[c].pc = "lookup"
    /\ LET u == login[c].user IN
       IF user_rows[u] = 0
       THEN /\ login' = [login EXCEPT ![c].pc = "create"]
            /\ UNCHANGED granted
       ELSE IF user_rows[u] = 1
       THEN /\ login' = [login EXCEPT ![c].pc = "returned", ![c].participant = 1]
            /\ granted' = [granted EXCEPT ![u] = @ \cup {1}]
       ELSE /\ login' = [login EXCEPT ![c].pc = "raised"]
            /\ UNCHANGED granted
    /\ UNCHANGED <<user_rows, AllButAuth>>

\* repo.create and session.commit(): a new row, which is returned
LoginCreate(c) ==
    /\ login[c].pc = "create"
    /\ LET u == login[c].user
           id == user_rows[u] + 1 IN
       /\ user_rows' = [user_rows EXCEPT ![u] = id]
       /\ login' = [login EXCEPT ![c].pc = "returned", ![c].participant = id]
       /\ granted' = [granted EXCEPT ![u] = @ \cup {id}]
    /\ UNCHANGED AllButAuth

\* the endpoint answers with the participant, or with 500
LoginEnd(c) ==
    /\ login[c].pc \in {"returned", "raised"}
    /\ login' = [login EXCEPT ![c] = IdleLogin]
    /\ UNCHANGED <<user_rows, granted, AllButAuth>>

\* the participant service under requests
AuthNext ==
    \/ \E c \in Logins, u \in Users : LoginBegin(c, u)
    \/ \E c \in Logins : LoginLookup(c)
    \/ \E c \in Logins : LoginCreate(c)
    \/ \E c \in Logins : LoginEnd(c)

(***************************************************************************)
(* NetworkClock: subscribers (GET /network/clock/stream)                   *)
(***************************************************************************)
\* NetworkClock.subscribe: a new, empty queue is appended to the list
Subscribe(h) ==
    /\ h \notin Subscribed
    /\ subscribers' = Append(subscribers, h)
    /\ mailbox' = [mailbox EXCEPT ![h] = <<>>]
    /\ sent' = [sent EXCEPT ![h] = <<>>]
    /\ gone' = gone \ {h}
    /\ UNCHANGED <<clockVars, tickVars, storeVars, obsVars, moneyVars>>

\* NetworkClock.unsubscribe, called with any queue: one in the list, one
\* already removed or one never subscribed
Unsubscribe(h) ==
    /\ subscribers' = IF h \in Subscribed THEN list_remove(subscribers, h)
                      ELSE subscribers
    /\ gone' = gone \cup {h}
    /\ UNCHANGED <<clockVars, tickVars, storeVars, obsVars, moneyVars, mailbox, sent>>

\* clock_stream's event_generator: queue.get() returns the oldest message
StreamGet(h) ==
    /\ h \in Subscribed
    /\ mailbox[h] # <<>>
    /\ mailbox' = [mailbox EXCEPT ![h] = Tail(@)]
    /\ sent' = [sent EXCEPT ![h] = Tail(@)]
    /\ UNCHANGED <<clockVars, tickVars, storeVars, obsVars, moneyVars, subscribers,
                   gone>>

\* _tick_loop in auto mode: the clock_sync broadcast that ends an iteration
LoopSync ==
    /\ task = "running"
    /\ pc["loop"] = "idle"
    /\ mode = "auto"
    /\ DeliverCapped(<<"clock_sync">>)
    /\ UNCHANGED <<clockVars, tickVars, storeVars, obsVars, moneyVars>>

\* NetworkClock.queue_action
QueueAction(id, p) ==
    /\ Len(pending_actions) < MaxQueue
    /\ pending_actions' = Append(pending_actions, [id |-> id, priority |-> p])
    /\ UNCHANGED <<current_month, is_processing, last_tick, due, mode, task, timerVars,
                   tickVars, storeVars, tradeVars, obsVars>>

\* NetworkClock.remove_action: the first queued action with that id is
\* taken out
RemoveAction(id) ==
    /\ \E i \in 1..Len(pending_actions) : pending_actions[i].id = id
    /\ LET i == CHOOSE i \in 1..Len(pending_actions) :
                   /\ pending_actions[i].id = id
                   /\ \A j \in 1..(i - 1) : pending_actions[j].id # id
       IN pending_actions' = SubSeq(pending_actions, 1, i - 1)
                                \o SubSeq(pending_actions, i + 1, Len(pending_actions))
    /\ UNCHANGED <<current_month, is_processing, last_tick, due, mode, task, timerVars,
                   tickVars, storeVars, tradeVars, obsVars>>

\* the months POST /network/clock/reset is asked for
ResetMonths == {InitialClockMonth}

\* POST /network/clock/reset: stop(), current_month = month, clear_actions(),
\* set_preset(preset)
ResetClock(month, preset) ==
    /\ IF task = "running" /\ pc["loop"] # "idle"
       THEN /\ is_processing' = FALSE
            /\ pc' = [pc EXCEPT !["loop"] = "idle"]
            /\ loc' = [loc EXCEPT !["loop"] = IdleLoc]
            /\ tick_view' = IdleView
       ELSE UNCHANGED <<is_processing, pc, loc, tick_view>>
    /\ task' = "none"
    /\ warning_sent' = FALSE
    /\ current_month' = month
    /\ pending_actions' = <<>>
    /\ config' = from_preset(preset)
    /\ mode' = "auto"
    /\ ResetTimer(from_preset(preset))
    /\ DeliverCapped(<<"clock_stopped", "config_changed">>)
    /\ UNCHANGED <<storeVars, moneyVars, invocations, rejected, bus_last>>

\* POST /network/clock/queue-action: build the PendingAction from the request,
\* clock.queue_action(action), answer "queued"
QueueActionEndpoint(id, p) ==
    /\ Len(pending_actions) < MaxSubmitted
    /\ pending_actions' = Append(pending_actions, [id |-> id, priority |-> p])
    /\ reply' = [status |-> "queued", action_id |-> id,
                 pending_count |-> Len(pending_actions) + 1]
    /\ UNCHANGED <<current_month, is_processing, last_tick, due, mode, task, timerVars,
                   tickVars, storeVars, obsVars, busVars, sideVars, ledgerVars, reqVars, result, calls>>

\* NetworkClock.clear_actions
ClearActions ==
    /\ pending_actions # <<>>
    /\ pending_actions' = <<>>
    /\ UNCHANGED <<current_month, is_processing, last_tick, due, mode, task, timerVars,
                   tickVars, storeVars, tradeVars, obsVars>>

\* POST /actions/execute with a vote that is accepted (the voter holds
\* tokens): _handle_vote queues a stored action for network_month =
\* clock.current_month and commits
ExecuteVote ==
    /\ \E p \in Participants : holding[p] > 0
    /\ FreeIds # {}
    /\ db_actions' = StoredAfterQueue(db_actions, current_month)
    /\ UNCHANGED <<clockVars, tickVars, network_state_month, snapshots,
                   db_events, obsVars, tradeVars>>

\* the wall clock advances to the time of the next tick
TimePasses ==
    /\ ~due
    /\ due' = TRUE
    /\ warning_active' = TRUE
    /\ UNCHANGED <<current_month, is_processing, last_tick, mode, task, pending_actions,
                   config, warning_sent, warned,
                   tickVars, storeVars, tradeVars, obsVars>>

\* the wall clock advances into the warning period before the next tick
WarningPeriodBegins ==
    /\ ~warning_active
    /\ ~due
    /\ warning_active' = TRUE
    /\ UNCHANGED <<current_month, is_processing, last_tick, due, mode, task,
                   pending_actions, config, warning_sent, warned,
                   tickVars, storeVars, tradeVars, obsVars>>

\* the clock's tick requests, the pipeline of a tick in flight, start and
\* stop, stored votes and the passing of time
TickNext ==
    \/ LoopTick
    \/ ForceTick
    \/ \E r \in Runners, ok \in BOOLEAN : DrainStep(r, ok)
    \/ \E r \in Runners : DrainCommit(r)
    \/ \E r \in Runners : DrainFail(r)
    \/ \E r \in Runners, acted \in BOOLEAN, ok \in BOOLEAN : NpcStage(r, acted, ok)
    \/ \E r \in Runners, ok \in BOOLEAN : EventStage(r, ok)
    \/ \E r \in Runners : MonthStage(r)
    \/ \E r \in Runners : OnTickRaises(r)
    \/ \E r \in Runners : PersistStage(r)
    \/ \E r \in Runners : CompleteTick(r)
    \/ Start
    \/ Stop
    \/ ExecuteVote
    \/ TimePasses

\* the tick requests and the pipeline with the in-memory queue, no stored
\* action being queued
GateNext ==
    \/ LoopTick
    \/ ForceTick
    \/ \E r \in Runners : DrainCommit(r)
    \/ \E r \in Runners : DrainFail(r)
    \/ \E r \in Runners, acted \in BOOLEAN, ok \in BOOLEAN : NpcStage(r, acted, ok)
    \/ \E r \in Runners, ok \in BOOLEAN : EventStage(r, ok)
    \/ \E r \in Runners : MonthStage(r)
    \/ \E r \in Runners : OnTickRaises(r)
    \/ \E r \in Runners : PersistStage(r)
    \/ \E r \in Runners : CompleteTick(r)
    \/ Start
    \/ Stop
    \/ TimePasses
    \/ \E id \in ActionIds, p \in Priorities : QueueAction(id, p)
    \/ ClearActions

\* clients submitting actions to the in-memory queue and votes to the store,
\* and forced ticks in which no NPC acts and no step raises
QueueNext ==
    \/ \E id \in SubmittedIds, p \in Priorities : QueueActionEndpoint(id, p)
    \/ ExecuteVote
    \/ ForceTick
    \/ \E r \in Runners, ok \in BOOLEAN : DrainStep(r, ok)
    \/ \E r \in Runners : DrainCommit(r)
    \/ \E r \in Runners : NpcStage(r, FALSE, TRUE)
    \/ \E r \in Runners : EventStage(r, TRUE)
    \/ \E r \in Runners : MonthStage(r)
    \/ \E r \in Runners : PersistStage(r)
    \/ \E r \in Runners : CompleteTick(r)

\* the tick loop with its warnings, forced ticks, and the configuration
\* requests of the admin endpoints, while the loop task runs
ControlNext ==
    \/ LoopWarn
    \/ LoopTick
    \/ ForceTick
    \/ \E r \in Runners : DrainCommit(r)
    \/ \E r \in Runners : NpcStage(r, FALSE, TRUE)
    \/ \E r \in Runners : EventStage(r, TRUE)
    \/ \E r \in Runners : MonthStage(r)
    \/ \E r \in Runners : OnTickRaises(r)
    \/ \E r \in Runners : PersistStage(r)
    \/ \E r \in Runners : CompleteTick(r)
    \/ TimePasses
    \/ WarningPeriodBegins
    \/ \E preset \in Presets : SetPreset(preset)
    \/ \E seconds \in IntervalRequests : SetInterval(seconds)
    \/ \E m \in Modes : SetMode(m)
    \/ Pause
    \/ Resume

\* the requests of the clock's endpoints and forced ticks (ticks in which no
\* stored action is drained and only the callback's uncovered part may raise)
AdminNext ==
    \/ ForceTick
    \/ \E r \in Runners : DrainCommit(r)
    \/ \E r \in Runners : NpcStage(r, FALSE, TRUE)
    \/ \E r \in Runners : EventStage(r, TRUE)
    \/ \E r \in Runners : MonthStage(r)
    \/ \E r \in Runners : OnTickRaises(r)
    \/ \E r \in Runners : PersistStage(r)
    \/ \E r \in Runners : CompleteTick(r)
    \/ Start
    \/ Stop
    \/ Pause
    \/ Resume
    \/ \E m \in Modes : SetMode(m)
    \/ \E preset \in Presets : SetPreset(preset)
    \/ SetInterval(45)
    \/ \E month \in ResetMonths, preset \in Presets : ResetClock(month, preset)
    \/ \E id \in ActionIds : QueueAction(id, DefaultPriority)
    \/ \E id \in ActionIds : RemoveAction(id)
    \/ ClearActions

\* the tick loop under start, stop, pause, resume, mode and preset changes
\* and resets (ticks in which no step raises)
LifecycleNext ==
    \/ LoopTick
    \/ \E r \in Runners : DrainCommit(r)
    \/ \E r \in Runners : NpcStage(r, FALSE, TRUE)
    \/ \E r \in Runners : EventStage(r, TRUE)
    \/ \E r \in Runners : MonthStage(r)
    \/ \E r \in Runners : PersistStage(r)
    \/ \E r \in Runners : CompleteTick(r)
    \/ TimePasses
    \/ Start
    \/ Stop
    \/ Pause
    \/ Resume
    \/ \E m \in Modes : SetMode(m)
    \/ \E preset \in Presets : SetPreset(preset)
    \/ \E month \in ResetMonths, preset \in Presets : ResetClock(month, preset)

\* streams subscribing, reading and leaving while the loop broadcasts
\* clock_sync and ticks are forced (ticks in which no step raises)
BusNext ==
    \/ \E h \in Handles : Subscribe(h)
    \/ \E h \in Handles : Unsubscribe(h)
    \/ \E h \in Handles : StreamGet(h)
    \/ LoopSync
    \/ ForceTick
    \/ \E r \in Runners : DrainCommit(r)
    \/ \E r \in Runners : NpcStage(r, FALSE, TRUE)
    \/ \E r \in Runners : EventStage(r, TRUE)
    \/ \E r \in Runners : MonthStage(r)
    \/ \E r \in Runners : PersistStage(r)
    \/ \E r \in Runners : CompleteTick(r)

ClockNext ==
    \/ TickNext
    \/ \E id \in ActionIds : QueueAction(id, DefaultPriority)
    \/ ClearActions

----------------------------------------------------------------------------
(***************************************************************************)
(* The action processor (services/action_processor.py) and the            *)
(* repositories it calls.  Quantities are whole units of the Decimal      *)
(* columns; every request names the one modelled property.  No handler    *)
(* changes token_price, so a holding's avg_purchase_price stays           *)
(* TokenPrice.                                                             *)
(***************************************************************************)
\* the rows that buy_tokens and sell_tokens read and write
Ledger ==
    [balance |-> balance, total_invested |-> total_invested,
     holding |-> holding, tokens_available |-> tokens_available,
     network_ownership |-> network_ownership]

\* PropertyState.status as set_tenant / clear_tenant keep it
status == IF tenant_id = "none" THEN "available" ELSE "tenanted"

\* (total_tokens - tokens_available) / total_tokens * 100 as the
\* Numeric(5, 2) column keeps it: rounded to two decimals, in hundredths
ownership(available) ==
    (2 * (TotalTokens - available) * 10000 + TotalTokens) \div (2 * TotalTokens)

\* update_tokens without the subtraction
update_tokens_NotApplied(available, tokens_sold) == available

\* PropertyStateRepository.update_tokens: tokens_available -= tokens_sold
update_tokens(available, tokens_sold) == available - tokens_sold

\* ParticipantRepository.add_holding: a new row, or the existing row grown
add_holding(held, token_amount) == held + token_amount

\* ParticipantRepository.remove_holding: the row is deleted when it holds no
\* more than token_amount
remove_holding(held, token_amount) ==
    IF held <= token_amount THEN 0 ELSE held - token_amount

\* _handle_buy_tokens that makes the trade before it looks at the balance
buy_tokens_TradeBeforeBalanceCheck(L, p, token_amount, max_price) ==
    LET total_cost == token_amount * TokenPrice IN
    IF token_amount <= 0 THEN L
    ELSE IF L.tokens_available < token_amount THEN L
    ELSE IF TokenPrice > max_price THEN L
    ELSE [balance |-> [L.balance EXCEPT ![p] = @ - total_cost],
          total_invested |-> [L.total_invested EXCEPT ![p] = @ + total_cost],
          holding |-> [L.holding EXCEPT ![p] = add_holding(@, token_amount)],
          tokens_available |-> update_tokens(L.tokens_available, token_amount),
          network_ownership |->
              ownership(update_tokens(L.tokens_available, token_amount))]

\* _handle_buy_tokens run alone: the ledger after the call (unchanged when the
\* call is rejected)
buy_tokens(L, p, token_amount, max_price) ==
    LET total_cost == token_amount * TokenPrice IN
    IF token_amount <= 0 THEN L                          \* INVALID_PARAMS
    ELSE IF L.tokens_available < token_amount THEN L     \* INSUFFICIENT_TOKENS
    ELSE IF TokenPrice > max_price THEN L                \* PRICE_TOO_HIGH
    ELSE IF L.balance[p] < total_cost THEN L             \* INSUFFICIENT_BALANCE
    ELSE [balance |-> [L.balance EXCEPT ![p] = @ - total_cost],
          total_invested |-> [L.total_invested EXCEPT ![p] = @ + total_cost],
          holding |-> [L.holding EXCEPT ![p] = add_holding(@, token_amount)],
          tokens_available |-> update_tokens(L.tokens_available, token_amount),
          network_ownership |->
              ownership(update_tokens(L.tokens_available, token_amount))]

\* _handle_sell_tokens run alone
sell_tokens(L, p, token_amount, min_price) ==
    LET total_proceeds == token_amount * TokenPrice IN
    IF token_amount <= 0 THEN L                          \* INVALID_PARAMS
    ELSE IF L.holding[p] < token_amount THEN L           \* INSUFFICIENT_TOKENS
    ELSE IF TokenPrice < min_price THEN L                \* PRICE_TOO_LOW
    ELSE [balance |-> [L.balance EXCEPT ![p] = @ + total_proceeds],
          total_invested |-> L.total_invested,
          holding |-> [L.holding EXCEPT ![p] = remove_holding(@, token_amount)],
          tokens_available |-> L.tokens_available + token_amount,
          network_ownership |-> ownership(L.tokens_available + token_amount)]

\* ActionResult as process_action's caller sees it; outcome "raised": an
\* exception crossed the boundary instead
Returned(success, error, message) ==
    [outcome |-> "returned", success |-> success, error |-> error, message |-> message]
Raised == [outcome |-> "raised", success |-> FALSE, error |-> "", message |-> ""]
NoResult == [outcome |-> "none", success |-> FALSE, error |-> "", message |-> ""]

\* the message that goes with each error code (the fixed part of the text)
ErrorMessage(error) ==
    CASE error = "INVALID_ACTION_TYPE" -> "Unknown action type"
      [] error = "INVALID_PARAMS" -> "Invalid property or token amount"
      [] error = "NOT_FOUND" -> "Participant not found"
      [] error = "INSUFFICIENT_TOKENS" -> "Insufficient tokens"
      [] error = "PRICE_TOO_HIGH" -> "Price exceeds max"
      [] error = "PRICE_TOO_LOW" -> "Price below minimum"
      [] error = "INSUFFICIENT_BALANCE" -> "Insufficient balance"
      [] error = "NOT_TENANT" -> "You are not the tenant of this property"
      [] error = "NOT_TENANTED" -> "Property is not tenanted"
      [] error = "INVALID_VOTE" -> "Invalid vote choice"
      [] error = "NO_VOTING_POWER" -> "No voting power - you need token holdings to vote"
      [] error = "NOT_SERVICE_PROVIDER" -> "Only service providers can complete jobs"
      [] OTHER -> "Action failed"

\* a handler's return with success=False
Failure(error) == Returned(FALSE, error, ErrorMessage(error))
\* a handler's return with success=True
Success(message) == Returned(TRUE, "", message)

\* process_action without the try block around the handler
process_action_NoTry(handler_outcome) == handler_outcome

\* ActionProcessor.process_action around a handler: what the handler returns,
\* or PROCESSING_ERROR when it raises
process_action(handler_outcome) ==
    IF handler_outcome.outcome = "raised"
    THEN Returned(FALSE, "PROCESSING_ERROR", "Action failed")
    ELSE handler_outcome

\* the check of _handle_buy_tokens that rejects the request ("": none does)
buy_tokens_error(L, p, token_amount, max_price) ==
    IF token_amount <= 0 THEN "INVALID_PARAMS"
    ELSE IF L.tokens_available < token_amount THEN "INSUFFICIENT_TOKENS"
    ELSE IF TokenPrice > max_price THEN "PRICE_TOO_HIGH"
    ELSE IF L.balance[p] < token_amount * TokenPrice THEN "INSUFFICIENT_BALANCE"
    ELSE ""

\* the check of _handle_sell_tokens that rejects the request
sell_tokens_error(L, p, token_amount, min_price) ==
    IF token_amount <= 0 THEN "INVALID_PARAMS"
    ELSE IF L.holding[p] < token_amount THEN "INSUFFICIENT_TOKENS"
    ELSE IF TokenPrice < min_price THEN "PRICE_TOO_LOW"
    ELSE ""

\* the values kept by the model stay within its bounds
InRange(L) ==
    \A p \in Participants :
        /\ L.balance[p] \in -MaxMoney..MaxMoney
        /\ L.total_invested[p] <= MaxMoney

\* session.commit() of the rows of L
Commit(L) ==
    /\ balance' = L.balance
    /\ total_invested' = L.total_invested
    /\ holding' = L.holding
    /\ tokens_available' = L.tokens_available
    /\ network_ownership' = L.network_ownership

\* a handler returns success=False before it has changed anything
Rejected(error) ==
    /\ result' = process_action(Failure(error))
    /\ UNCHANGED <<clockVars, tickVars, storeVars, obsVars, busVars, sideVars, ledgerVars, reqVars, reply>>

\* process_action("buy_tokens")
BuyTokens(p, token_amount, max_price) ==
    LET L == buy_tokens(Ledger, p, token_amount, max_price)
        error == buy_tokens_error(Ledger, p, token_amount, max_price)
    IN /\ InRange(L)
       /\ Commit(L)
       /\ result' = process_action(IF error = "" THEN Success("Bought tokens")
                                   ELSE Failure(error))
       /\ UNCHANGED <<tenant_id, total_rent_collected, total_dividends_paid,
                      clockVars, tickVars, storeVars, obsVars, busVars, sideVars, reqVars, reply>>

\* process_action("sell_tokens")
SellTokens(p, token_amount, min_price) ==
    LET L == sell_tokens(Ledger, p, token_amount, min_price)
        error == sell_tokens_error(Ledger, p, token_amount, min_price)
    IN /\ InRange(L)
       /\ Commit(L)
       /\ result' = process_action(IF error = "" THEN Success("Sold tokens")
                                   ELSE Failure(error))
       /\ UNCHANGED <<tenant_id, total_rent_collected, total_dividends_paid,
                      clockVars, tickVars, storeVars, obsVars, busVars, sideVars, reqVars, reply>>

\* process_action("pay_rent"): weeks = int(data.get("weeks", 1)) is used as
\* given
PayRent(p, weeks) ==
    LET total_rent == WeeklyRent * weeks IN
    IF tenant_id # p THEN Rejected("NOT_TENANT")
    ELSE IF balance[p] < total_rent THEN Rejected("INSUFFICIENT_BALANCE")
    ELSE /\ balance[p] - total_rent <= MaxMoney
         /\ total_rent_collected + total_rent \in -MaxMoney..MaxMoney
         /\ balance' = [balance EXCEPT ![p] = @ - total_rent]
         /\ total_rent_collected' = total_rent_collected + total_rent
         /\ result' = process_action(Success("Paid rent"))
         /\ UNCHANGED <<total_invested, holding, tokens_available, network_ownership,
                        tenant_id,
                        total_dividends_paid,
                        clockVars, tickVars, storeVars, obsVars, busVars, sideVars, reqVars, reply>>

\* _handle_collect_rent: weekly_rent * 4.33 * 0.80, in thousandths
dividend_pool == WeeklyRent * 433 * 8

\* process_action("collect_rent"): record_dividend and a dividend event
CollectRent ==
    IF status # "tenanted" THEN Rejected("NOT_TENANTED")
    ELSE /\ total_dividends_paid + dividend_pool <= MaxMoney * dividend_pool
         /\ total_dividends_paid' = total_dividends_paid + dividend_pool
         /\ db_events' = db_events \cup {current_month}
         /\ result' = process_action(Success("Collected rent, distributed dividends"))
         /\ UNCHANGED <<balance, total_invested, holding, tokens_available, network_ownership,
                        tenant_id,
                        total_rent_collected, network_state_month, db_actions,
                        snapshots, clockVars, tickVars, obsVars, busVars, sideVars, reqVars, reply>>

\* process_action("vote"): an accepted vote is queued as a stored action for
\* network_month = clock.current_month
Vote(p, choice) ==
    IF choice \notin {"for", "against", "abstain"} THEN Rejected("INVALID_VOTE")
    ELSE IF holding[p] <= 0 THEN Rejected("NO_VOTING_POWER")
    ELSE /\ FreeIds # {}
         /\ db_actions' = StoredAfterQueue(db_actions, current_month)
         /\ result' = process_action(Success("Vote queued"))
         /\ UNCHANGED <<network_state_month, snapshots, db_events,
                        clockVars, tickVars, obsVars, busVars, sideVars, ledgerVars, reqVars, reply>>

\* process_action("request_service"): a service_request event
RequestService ==
    /\ db_events' = db_events \cup {current_month}
    /\ result' = process_action(Success("Service request submitted"))
    /\ UNCHANGED <<network_state_month, db_actions, snapshots,
                   clockVars, tickVars, obsVars, busVars, sideVars, ledgerVars, reqVars, reply>>

\* process_action("complete_service"): the provider is paid `amount` as given
CompleteService(p, amount) ==
    IF role[p] # "service" THEN Rejected("NOT_SERVICE_PROVIDER")
    ELSE /\ balance[p] + amount \in -MaxMoney..MaxMoney
         /\ balance' = [balance EXCEPT ![p] = @ + amount]
         /\ db_events' = db_events \cup {current_month}
         /\ result' = process_action(Success("Service completed"))
         /\ UNCHANGED <<total_invested, holding, tokens_available, network_ownership,
                        tenant_id,
                        total_rent_collected, total_dividends_paid,
                        network_state_month, db_actions, snapshots,
                        clockVars, tickVars, obsVars, busVars, sideVars, reqVars, reply>>

\* process_action with a type that has no handler: INVALID_ACTION_TYPE
UnknownAction == Rejected("INVALID_ACTION_TYPE")

\* process_action for a participant_id or property_id that has no row
NotFound == Rejected("NOT_FOUND")

\* a handler raises: a payload field that cannot be converted
\* (Decimal(str(...)), int(...)), action_data that is no dict, or a store call
\* that fails.  Nothing was committed: leaving `async with async_session()`
\* closes the session and discards what the handler changed.
HandlerRaises ==
    /\ result' = process_action(Raised)
    /\ UNCHANGED <<clockVars, tickVars, storeVars, obsVars, busVars, sideVars, ledgerVars, reqVars, reply>>

IdleReq ==
    [pc |-> "idle", token_amount |-> 0, balance_seen |-> 0, invested_seen |-> 0,
     holding_seen |-> 0, available_seen |-> 0]

\* seeded participants and property: nothing sold yet
LedgerInit(balances, tenant) ==
    /\ balance = balances
    /\ total_invested = [p \in Participants |-> 0]
    /\ holding = [p \in Participants |-> 0]
    /\ tokens_available = TotalTokens
    /\ network_ownership = 0
    /\ tenant_id = tenant
    /\ total_rent_collected = 0
    /\ total_dividends_paid = 0
    /\ req = [q \in Requests |-> IdleReq]
    /\ reply = "none"
    /\ result = NoResult
    /\ calls = 0
    /\ ledger0 = [balance |-> balances,
                  total_invested |-> [p \in Participants |-> 0],
                  holding |-> [p \in Participants |-> 0],
                  tokens_available |-> TotalTokens,
                  network_ownership |-> 0]

StartBalances == {0, MaxMoney}

\* a process_action call in a run that does not count the calls
Uncounted(call) == call /\ UNCHANGED calls

\* a process_action call in a run of at most MaxCalls calls
Counted(call) ==
    /\ calls < MaxCalls
    /\ calls' = calls + 1
    /\ call

\* buy_tokens and sell_tokens calls only, any number of them
TradeNext ==
    \/ \E p \in Participants, n \in Amounts, m \in MaxPrices :
          Uncounted(BuyTokens(p, n, m))
    \/ \E p \in Participants, n \in Amounts, m \in MinPrices :
          Uncounted(SellTokens(p, n, m))

\* calls of every action type, with well-formed and malformed payloads
LedgerNext ==
    \/ \E p \in Participants, n \in Amounts, m \in MaxPrices :
          Counted(BuyTokens(p, n, m))
    \/ \E p \in Participants, n \in Amounts, m \in MinPrices :
          Counted(SellTokens(p, n, m))
    \/ \E p \in Participants, w \in Amounts : Counted(PayRent(p, w))
    \/ Counted(CollectRent)
    \/ \E p \in Participants, c \in VoteChoices : Counted(Vote(p, c))
    \/ Counted(RequestService)
    \/ \E p \in Participants, n \in Amounts : Counted(CompleteService(p, n))
    \/ Counted(UnknownAction)
    \/ Counted(NotFound)
    \/ Counted(HandlerRaises)

(***************************************************************************)
(* buy_tokens and sell_tokens in the precision of the columns.  The        *)
(* handlers compute with Decimal; session.commit() stores each value in    *)
(* its Numeric(p, s) column, which keeps s decimals, and the next handler  *)
(* loads the stored value.  Amounts are in units of 10^-9 token and, at    *)
(* token_price 1.00, of 10^-9 dollar.                                      *)
(***************************************************************************)
\* PropertyState.total_tokens of the traded property: 0.04 token
TripTotalTokens == 4 * CentScale
\* token_amount of a request: 10^-9, 5 * 10^-9, 10^-8, 0.005, 0.01, 0.02
TripAmounts == {1, 5, TokenScale, CentScale \div 2, CentScale, 2 * CentScale}
\* balance of the participant before the trades: 0.00 to 0.03
TripBalances == {0, CentScale, 2 * CentScale, 3 * CentScale}

\* a non-negative value x as a column with steps of q keeps it: the nearest
\* multiple of q; a value half-way goes up (PostgreSQL numeric) or down (a
\* float rendered with the column's scale can fall below the half)
stored(x, q, ties_up) ==
    LET r == x % q IN
    IF 2 * r < q THEN x - r
    ELSE IF 2 * r > q THEN x - r + q
    ELSE IF ties_up THEN x - r + q ELSE x - r

\* (total_tokens - tokens_available) / total_tokens * 100, in hundredths,
\* from the tokens_available the handler has just computed
trip_ownership(available, ties_up) ==
    stored(TripTotalTokens - available, TripTotalTokens \div OwnershipSteps, ties_up)
        \div (TripTotalTokens \div OwnershipSteps)

\* everything but the trading participant
AllButTrip ==
    <<clockVars, tickVars, storeVars, obsVars, busVars, ledgerVars, reqVars, answerVars,
      npcVars, authVars, extraVars>>

\* a participant with balance b is about to trade a property of which
\* nothing is sold
TripBegin(b, ties_up) ==
    /\ trip.pc = "idle"
    /\ trip' = [IdleTrip EXCEPT !.pc = "ready", !.ties_up = ties_up,
                                !.rows = [NoRows EXCEPT !.balance = b,
                                             !.tokens_available = TripTotalTokens]]
    /\ UNCHANGED AllButTrip

\* _handle_buy_tokens with the default max_price, committed: the checks, then
\* balance -= total_cost, add_holding, update_tokens, each stored in its
\* column
TripBuy(token_amount) ==
    /\ trip.pc = "ready"
    /\ LET R == trip.rows
           total_cost == token_amount * TokenPrice
           available == R.tokens_available - token_amount
       IN IF \/ token_amount <= 0
             \/ R.tokens_available < token_amount
             \/ R.balance < total_cost
          THEN trip' = [trip EXCEPT !.pc = "rejected"]
          ELSE trip' = [trip EXCEPT
                 !.pc = "bought",
                 !.before = R,
                 !.bought = token_amount,
                 !.rows = [balance |-> stored(R.balance - total_cost, CentScale, trip.ties_up),
                           has_row |-> TRUE,
                           token_amount |->
                               stored(R.token_amount + token_amount, TokenScale, trip.ties_up),
                           tokens_available |-> stored(available, TokenScale, trip.ties_up),
                           network_ownership |-> trip_ownership(available, trip.ties_up)]]
    /\ UNCHANGED AllButTrip

\* _handle_sell_tokens with the default min_price, committed: the checks,
\* then remove_holding, balance += total_proceeds, tokens_available +=
\* token_amount and network_ownership, each stored in its column
TripSell(token_amount) ==
    /\ trip.pc = "bought"
    /\ LET R == trip.rows
           total_proceeds == token_amount * TokenPrice
           available == R.tokens_available + token_amount
       IN IF \/ token_amount <= 0
             \/ ~R.has_row
             \/ R.token_amount < token_amount
          THEN trip' = [trip EXCEPT !.pc = "rejected"]
          ELSE trip' = [trip EXCEPT
                 !.pc = "sold",
                 !.sold = token_amount,
                 !.rows = [balance |-> stored(R.balance + total_proceeds, CentScale,
                                              trip.ties_up),
                           has_row |-> R.token_amount > token_amount,
                           token_amount |->
                               IF R.token_amount <= token_amount THEN 0
                               ELSE stored(R.token_amount - token_amount, TokenScale,
                                           trip.ties_up),
                           tokens_available |-> stored(available, TokenScale, trip.ties_up),
                           network_ownership |-> trip_ownership(available, trip.ties_up)]]
    /\ UNCHANGED AllButTrip

\* the participant is done
TripEnd ==
    /\ trip.pc \in {"sold", "rejected"}
    /\ trip' = IdleTrip
    /\ UNCHANGED AllButTrip

\* one participant buys and then sells
TripNext ==
    \/ \E b \in TripBalances, ties_up \in BOOLEAN : TripBegin(b, ties_up)
    \/ \E n \in TripAmounts : TripBuy(n)
    \/ \E n \in TripAmounts : TripSell(n)
    \/ TripEnd

(***************************************************************************)
(* Two process_action("buy_tokens") calls running concurrently, each in    *)
(* its own session.  A session reads committed rows; the ORM writes the    *)
(* values of the objects it loaded; from the first flush to the commit the *)
(* store admits no other writer.                                           *)
(***************************************************************************)
\* participant_repo.get_by_id: the session loads the participant row and,
\* with it (selectinload), the participant's holdings
BuyLoadParticipant(q, token_amount) ==
    /\ req[q].pc = "idle"
    /\ req' = [req EXCEPT ![q] =
                 [pc |-> IF token_amount <= 0 THEN "done" ELSE "participant",
                  token_amount |-> token_amount,
                  balance_seen |-> balance[requester[q]],
                  invested_seen |-> total_invested[requester[q]],
                  holding_seen |-> holding[requester[q]],
                  available_seen |-> 0]]
    /\ UNCHANGED <<clockVars, tickVars, storeVars, obsVars, busVars, sideVars, ledgerVars, ledger0,
                   answerVars>>

\* property_repo.get_by_id and the checks on the loaded objects
BuyLoadProperty(q) ==
    /\ req[q].pc = "participant"
    /\ LET rejected_ == \/ tokens_available < req[q].token_amount
                        \/ req[q].balance_seen < req[q].token_amount * TokenPrice
       IN req' = [req EXCEPT ![q].available_seen = tokens_available,
                             ![q].pc = IF rejected_ THEN "done" ELSE "checked"]
    /\ UNCHANGED <<clockVars, tickVars, storeVars, obsVars, busVars, sideVars, ledgerVars, ledger0,
                   answerVars>>

\* the trade: balance and total_invested of the loaded participant,
\* add_holding on the loaded holding, update_tokens on the loaded property
\* state, session.commit()
BuyCommit(q) ==
    /\ req[q].pc = "checked"
    /\ LET p == requester[q]
           total_cost == req[q].token_amount * TokenPrice
       IN /\ balance' = [balance EXCEPT ![p] = req[q].balance_seen - total_cost]
          /\ total_invested' =
                 [total_invested EXCEPT ![p] = req[q].invested_seen + total_cost]
          /\ holding' =
                 [holding EXCEPT ![p] = add_holding(req[q].holding_seen, req[q].token_amount)]
          /\ tokens_available' =
                 update_tokens(req[q].available_seen, req[q].token_amount)
          /\ network_ownership' =
                 ownership(update_tokens(req[q].available_seen, req[q].token_amount))
    /\ req' = [req EXCEPT ![q].pc = "done"]
    /\ UNCHANGED <<clockVars, tickVars, storeVars, obsVars, busVars, sideVars, tenant_id,
                   total_rent_collected, total_dividends_paid, ledger0, answerVars>>

ConcurrentNext ==
    \/ \E q \in Requests, n \in Amounts : BuyLoadParticipant(q, n)
    \/ \E q \in Requests : BuyLoadProperty(q)
    \/ \E q \in Requests : BuyCommit(q)

----------------------------------------------------------------------------
(***************************************************************************)
(* Specifications                                                          *)
(***************************************************************************)
\* the seeded ledger after p1 has bought one token: p1 has voting power
HolderLedger ==
    buy_tokens([balance |-> [p \in Participants |-> MaxMoney],
                total_invested |-> [p \in Participants |-> 0],
                holding |-> [p \in Participants |-> 0],
                tokens_available |-> TotalTokens,
                network_ownership |-> 0],
               "p1", 1, DefaultMaxPrice)

\* the clock and the tick pipeline, over a ledger that no step changes
Init ==
    /\ ClockInit
    /\ balance = HolderLedger.balance
    /\ total_invested = HolderLedger.total_invested
    /\ holding = HolderLedger.holding
    /\ tokens_available = HolderLedger.tokens_available
    /\ network_ownership = HolderLedger.network_ownership
    /\ tenant_id = "none"
    /\ total_rent_collected = 0
    /\ total_dividends_paid = 0
    /\ req = [q \in Requests |-> IdleReq]
    /\ reply = "none"
    /\ result = NoResult
    /\ calls = 0
    /\ ledger0 = HolderLedger
Next == ClockNext
Spec == Init /\ [][Next]_vars

\* the clock while no stored action is queued
GateSpec == Init /\ [][GateNext]_vars

\* submitted actions and forced ticks
QueueSpec == Init /\ [][QueueNext]_vars

\* the participant service under requests
AuthSpec == Init /\ [][AuthNext]_vars

\* one participant's trades in stored precision
TripSpec == Init /\ [][TripNext]_vars

\* the NPC manager, the clock idle
NpcSpec == Init /\ [][NpcNext]_vars

\* the clock under the requests of its endpoints
AdminSpec == Init /\ [][AdminNext]_vars

\* the tick loop and the requests that start, stop and configure it
LifecycleSpec == Init /\ [][LifecycleNext]_vars

\* the event bus with its subscribers
BusSpec == Init /\ [][BusNext]_vars

\* the tick loop, forced ticks and configuration requests
ControlSpec == Init /\ [][ControlNext]_vars

\* up to MaxCalls process_action calls one after the other, the clock idle
LedgerSpecInit ==
    /\ ClockInit
    /\ \E b \in [Participants -> StartBalances], t \in Participants \cup {"none"} :
          LedgerInit(b, t)
LedgerSpec == LedgerSpecInit /\ [][LedgerNext]_vars

\* buy_tokens and sell_tokens calls one after the other
TradeSpec == LedgerSpecInit /\ [][TradeNext]_vars

\* two concurrent buy_tokens calls, the clock idle
ConcurrentInit ==
    /\ ClockInit
    /\ \E b \in [Participants -> StartBalances] : LedgerInit(b, "none")
ConcurrentSpec == ConcurrentInit /\ [][ConcurrentNext]_vars

\* the event loop runs every task that is ready and every awaited call
\* returns or raises: a tick that is in flight takes its next step
TickProgress(r) ==
    \/ \E ok \in BOOLEAN : DrainStep(r, ok)
    \/ DrainCommit(r)
    \/ DrainFail(r)
    \/ \E acted \in BOOLEAN, ok \in BOOLEAN : NpcStage(r, acted, ok)
    \/ \E ok \in BOOLEAN : EventStage(r, ok)
    \/ MonthStage(r)
    \/ OnTickRaises(r)
    \/ PersistStage(r)
    \/ CompleteTick(r)

\* the clock under that scheduling; the in-memory queue, on which no step of
\* a tick branches, stays empty
SpecFair == Init /\ [][TickNext]_vars /\ \A r \in Runners : WF_vars(TickProgress(r))

----------------------------------------------------------------------------
(***************************************************************************)
(* Properties of the clock and the tick pipeline                           *)
(***************************************************************************)
\* a step in which runner r's tick ends with a lifecycle broadcast
TickEnds(r) == pc[r] # "idle" /\ pc'[r] = "idle" /\ bus_last'.flip # bus_last.flip
\* a step that broadcasts processing_failed
FailureBroadcast == bus_last'.flip # bus_last.flip /\ bus_last'.event = "processing_failed"

\* C1: at most one tick is in flight, a tick in flight holds is_processing,
\* and a tick request refused because a tick is in flight leaves the month,
\* last_tick, the queue, the flag and the running tick untouched and does not
\* invoke the callback.
C1_OneTickInFlight ==
    /\ [](Cardinality(InFlight) <= 1 /\ (InFlight # {} => is_processing))
    /\ [][rejected' # rejected =>
            /\ is_processing /\ is_processing'
            /\ UNCHANGED <<current_month, last_tick, pending_actions, invocations,
                           pc, loc, bus_last>>]_vars

C1_Witness == rejected /\ InFlight # {} /\ pending_actions # <<>>

\* C2: a tick in which a pipeline step failed leaves current_month unchanged
\* and has committed nothing.
C2_TickAtomicity ==
    [][\A r \in Runners :
          (TickEnds(r) /\ (loc[r].step_failed \/ FailureBroadcast))
              => (current_month' = current_month /\ ~loc[r].wrote)]_vars

\* C3: a tick that ends with processing_failed names the attempted month,
\* leaves current_month, last_tick and the in-memory queue unchanged, and
\* every stored action that was pending for the drained month at its start
\* is still pending.
C3_FailedTickKeepsActions ==
    [][\A r \in Runners :
          (TickEnds(r) /\ FailureBroadcast)
              => /\ bus_last'.month = current_month + 1
                 /\ UNCHANGED <<current_month, last_tick, pending_actions>>
                 /\ \A i \in 1..Len(loc[r].db_pending) :
                       db_actions'[loc[r].db_pending[i]].status = "pending"]_vars

\* C4: is_processing is always released again; the step that publishes
\* processing_failed releases it and leaves the loop task alive; and whenever
\* no tick is in flight a force_tick request is accepted.
C4_ClockStaysRunnable ==
    /\ is_processing ~> ~is_processing
    /\ [][FailureBroadcast => (~is_processing' /\ task' = task)]_vars
    /\ []((~is_processing /\ invocations < MaxTicks) => ENABLED ForceTick)

\* a second attempt at the first month has failed and the clock is runnable
C4_Witness ==
    /\ bus_last.event = "processing_failed"
    /\ invocations >= 2
    /\ current_month = InitialClockMonth
    /\ ~is_processing
    /\ task = "running"

\* a step that broadcasts a tick lifecycle event
LifecycleBroadcast == bus_last'.flip # bus_last.flip

\* C5: the lifecycle broadcasts alternate: a processing_started is never
\* followed by another processing_started, and the month_completed or
\* processing_failed that follows it names the same month.
C5_StartedAlwaysClosed ==
    [][LifecycleBroadcast =>
          IF bus_last'.event = "processing_started"
          THEN bus_last.event # "processing_started"
          ELSE bus_last.event = "processing_started" /\ bus_last'.month = bus_last.month]_vars

\* C6: every tick that advanced the clock persisted one snapshot, and the
\* snapshot months have no gap.
C6_SnapshotsDense ==
    /\ Cardinality(snapshots) = current_month - InitialClockMonth
    /\ \A a \in snapshots, b \in snapshots :
          \A m \in a..b : m \in snapshots

\* C7: after a completed tick, while no tick is in flight, the month of the
\* network state (the month a snapshot of that tick carries) is the clock's
\* current_month.
C7_PersistedMonthIsClockMonth ==
    (InFlight = {} /\ bus_last.event = "month_completed")
        => network_state_month = current_month

\* s is ordered by priority, highest first, and the actions of each priority
\* are in the order they have in the queue q
OrderedFrom(s, q) ==
    /\ \A i \in 1..Len(s), j \in 1..Len(s) : i < j => s[i].priority >= s[j].priority
    /\ \A p \in Priorities :
          SelectSeq(s, LAMBDA a : a.priority = p) = SelectSeq(q, LAMBDA a : a.priority = p)

\* the stored actions a drain selected that its session has not yet marked
NotYetProcessed(r) ==
    {loc[r].db_pending[i] : i \in 1..Len(loc[r].db_pending)}
        \ {d.id : d \in loc[r].session_done}

\* C11: the actions handed to the tick callback are the queue ordered by
\* priority, highest first, actions of equal priority in queue order; the
\* drain selects every stored action pending for its month, and each action
\* it processes is the earliest queued of those it has not yet processed
\* (stored actions all carry the same priority).
C11_ProcessingOrder ==
    [][\A r \in Runners :
          /\ (pc[r] = "idle" /\ pc'[r] = "drain") =>
                /\ OrderedFrom(loc'[r].actions, pending_actions)
                /\ {loc'[r].db_pending[i] : i \in 1..Len(loc'[r].db_pending)} =
                       {a \in StoredIds : /\ db_actions[a].status = "pending"
                                          /\ db_actions[a].queued_for_month =
                                                 network_state_month}
          /\ (pc[r] = "drain" /\ loc'[r].drained = loc[r].drained + 1) =>
                \A d \in loc'[r].session_done \ loc[r].session_done :
                    \A b \in NotYetProcessed(r) : d.id <= b]_vars

\* a tick was handed two actions in another order than they were queued in,
\* and has drained two stored actions
C11_Witness ==
    \E r \in Runners :
        /\ pc[r] = "drain"
        /\ Len(loc[r].actions) = 2
        /\ loc[r].actions # pending_actions
        /\ loc[r].drained = 2

\* two buy_tokens actions of equal priority by different users whose amounts
\* together exceed the property's tokens
Contested(s) ==
    /\ Len(s) = 2
    /\ s[1].priority = s[2].priority
    /\ s[1].id # s[2].id
    /\ submitted_tokens[s[1].id] <= tokens_available
    /\ submitted_tokens[s[1].id] + submitted_tokens[s[2].id] > tokens_available

\* C12: a tick that completes after it was handed two contested buy_tokens
\* actions has filled the first: its user holds the tokens and they are no
\* longer available.
C12_FirstFeasibleWins ==
    [][\A r \in Runners :
          (pc[r] = "complete" /\ pc'[r] = "idle" /\ bus_last'.event = "month_completed"
              /\ Contested(loc[r].actions))
          => /\ holding'[submitted_user[loc[r].actions[1].id]]
                    >= HolderLedger.holding[submitted_user[loc[r].actions[1].id]]
                           + submitted_tokens[loc[r].actions[1].id]
             /\ tokens_available'
                    <= HolderLedger.tokens_available
                           - submitted_tokens[loc[r].actions[1].id]]_vars

\* C13: a submission of an id that is already queued is not queued again: no
\* two actions in the queue, and no two actions handed to a tick, have the
\* same id.
C13_IdempotentSubmission ==
    /\ \A i \in 1..Len(pending_actions), j \in 1..Len(pending_actions) :
          i # j => pending_actions[i].id # pending_actions[j].id
    /\ \A r \in Runners : \A i \in 1..Len(loc[r].actions), j \in 1..Len(loc[r].actions) :
          i # j => loc[r].actions[i].id # loc[r].actions[j].id

----------------------------------------------------------------------------
(***************************************************************************)
(* Properties of the action processor                                      *)
(***************************************************************************)
RECURSIVE SumOver(_, _)
SumOver(f, S) ==
    IF S = {} THEN 0
    ELSE LET x == CHOOSE y \in S : TRUE IN f[x] + SumOver(f, S \ {x})

\* C8: whatever actions are processed, no participant's balance is negative.
C8_BalancesNeverNegative == \A p \in Participants : balance[p] >= 0

SerialOutcomes ==
    LET a == req["a"].token_amount
        b == req["b"].token_amount
    IN {buy_tokens(buy_tokens(ledger0, requester["a"], a, DefaultMaxPrice),
                   requester["b"], b, DefaultMaxPrice),
        buy_tokens(buy_tokens(ledger0, requester["b"], b, DefaultMaxPrice),
                   requester["a"], a, DefaultMaxPrice)}

\* C10: when two concurrent buy_tokens calls have both returned, the ledger
\* is the one some serial order of the two produces, and tokens_available is
\* not negative.
C10_ConcurrentBuysSerializable ==
    (\A q \in Requests : req[q].pc = "done")
        => (Ledger \in SerialOutcomes /\ tokens_available >= 0)

\* C14: a process_action call that returns success=false has changed no
\* balance, total_invested, holding, tokens_available, tenant,
\* total_rent_collected or total_dividends_paid, and no stored action or event.
C14_RejectedHasNoEffect ==
    [][(calls' # calls /\ result'.outcome = "returned" /\ ~result'.success)
          => UNCHANGED <<ledgerVars, db_actions, db_events>>]_vars

\* a call is rejected for its balance after earlier calls sold tokens and
\* stored a vote
C14_Witness ==
    /\ result.outcome = "returned"
    /\ ~result.success
    /\ result.error = "INSUFFICIENT_BALANCE"
    /\ tokens_available < TotalTokens
    /\ \E id \in StoredIds : db_actions[id] # NoRow

\* C15: process_action never raises, and every result with success=false
\* carries a non-empty error code and a non-empty message.
C15_AlwaysAnActionResult ==
    /\ result.outcome # "raised"
    /\ (result.outcome = "returned" /\ ~result.success)
          => (result.error # "" /\ result.message # "")

\* a handler raised and the caller got PROCESSING_ERROR
C15_Witness ==
    /\ result.outcome = "returned"
    /\ result.error = "PROCESSING_ERROR"
    /\ calls = MaxCalls

----------------------------------------------------------------------------
(***************************************************************************)
(* Properties of the drain of stored actions and of readers during a tick  *)
(***************************************************************************)
\* the stored actions pending for a month
PendingFor(table, month) ==
    {a \in StoredIds : table[a].status = "pending" /\ table[a].queued_for_month = month}

\* runner r's tick completes in this step
TickCompletes(r) ==
    pc[r] = "complete" /\ pc'[r] = "idle" /\ bus_last'.event = "month_completed"

\* C16: processing a drained action creates no new pending action for the
\* month being drained, and when a tick completes no stored action queued
\* for the month it drained is pending.
C16_NoDrainedActionLeftPending ==
    [][\A r \in Runners :
          /\ (pc[r] = "drain" /\ loc'[r].drained = loc[r].drained + 1) =>
                PendingFor(db_actions', tick_view.state_month)
                    \subseteq PendingFor(db_actions, tick_view.state_month)
          /\ TickCompletes(r) =>
                PendingFor(db_actions', tick_view.state_month) = {}]_vars

\* C17: when a tick completes, every stored action that was pending for the
\* clock's month when the tick began is completed or failed.
C17_DeferredTalliedAtNextTick ==
    [][\A r \in Runners :
          TickCompletes(r) =>
              \A a \in tick_view.clock_pending :
                  db_actions'[a].status \in {"completed", "failed"}]_vars

\* C19: while a tick is in flight the network state still shows the month it
\* had when the tick began, as the clock does until the tick completes.
C19_NoPartialTick ==
    \A r \in InFlight :
        /\ network_state_month = tick_view.state_month
        /\ current_month = loc[r].next_month - 1

----------------------------------------------------------------------------
(***************************************************************************)
(* Properties of the configuration requests and of the tick warning       *)
(***************************************************************************)
\* C18: while a tick is running (is_processing before and after the step) no
\* step changes the configuration, the mode or last_tick.
C18_ConfigOnlyBetweenTicks ==
    [][(is_processing /\ is_processing') => UNCHANGED <<config, mode, last_tick>>]_vars

\* the tick loop broadcasts tick_warning in this step
WarningBroadcast == ~warning_sent /\ warning_sent' /\ warned'

\* the tick loop starts a tick in this step
LoopTickFires == pc["loop"] = "idle" /\ pc'["loop"] = "drain"

\* C20: a tick_warning is broadcast only when none was broadcast since the
\* countdown began, and when the tick loop fires a tick one has been
\* broadcast since the countdown began.
C20_OneWarningPerCountdown ==
    [][/\ WarningBroadcast => ~warned
       /\ LoopTickFires => warned']_vars

----------------------------------------------------------------------------
(***************************************************************************)
(* Properties of the event bus                                             *)
(***************************************************************************)
\* C21: no subscriber's mailbox holds more than MailboxCapacity messages.
C21_MailboxBounded ==
    \A h \in Subscribed : Len(mailbox[h]) <= MailboxCapacity

\* C22: whatever the subscribers have left unread, every subscriber's
\* mailbox holds exactly the events broadcast since it subscribed that it
\* has not yet got, in the order of the broadcasts, and a tick whose callback
\* has returned can complete.
C22_SlowSubscriberNeverBlocks ==
    /\ \A h \in Subscribed : mailbox[h] = sent[h]
    /\ \A r \in Runners : pc[r] = "complete" => ENABLED CompleteTick(r)

\* s1 has read nothing of more than MailboxCapacity events, among them those
\* of a completed tick, while s2 has got every event
C22_Witness ==
    /\ Subscribed = {"s1", "s2"}
    /\ Len(mailbox["s1"]) > MailboxCapacity
    /\ \E i \in 1..Len(mailbox["s1"]) : mailbox["s1"][i] = "month_completed"
    /\ mailbox["s2"] = <<>>
    /\ current_month > InitialClockMonth

\* C23: once unsubscribe has returned for a handle, the handle is not in the
\* list of subscribers and no broadcast puts a message into its mailbox,
\* until the handle is subscribed again; a step that shortens the list
\* removes exactly one handle and keeps the others in their order.
C23_UnsubscribedGetsNothing ==
    [][/\ \A h \in gone' :
             /\ h \notin {subscribers'[i] : i \in 1..Len(subscribers')}
             /\ h \in gone => mailbox'[h] = mailbox[h]
       /\ Len(subscribers') < Len(subscribers) =>
             \E h \in Subscribed :
                 subscribers' = SelectSeq(subscribers, LAMBDA k : k # h)]_vars

\* s1 has unsubscribed and an event was broadcast to s2 afterwards
C23_Witness ==
    /\ "s1" \in gone
    /\ mailbox["s1"] # <<>>
    /\ "s2" \in Subscribed
    /\ Len(mailbox["s2"]) > Len(mailbox["s1"])

(***************************************************************************)
(* Properties of the NPC manager                                           *)
(***************************************************************************)
\* C24: when process_tick leaves its loop over the brains, by returning or by
\* raising, every NPC that has a brain was handled in that call: a failure
\* while handling one NPC does not keep the remaining ones from being
\* evaluated
C24_RemainingNpcsHandled ==
    [][(npc_run.pc = "loop" /\ npc_run'.pc \in {"returned", "failed"})
          => npc_run'.handled = {brains[i] : i \in 1..Len(brains)}]_vars

\* C25: once initialize has set _initialized, the store holds exactly one
\* participant with each template's name and the manager holds exactly one
\* brain for each template, however the calls overlap
C25_OneNpcPerTemplate ==
    initialized =>
        \A t \in Templates :
            /\ npc_rows[t] = 1
            /\ Cardinality({i \in 1..Len(brains) : brains[i].name = t}) = 1

(***************************************************************************)
(* Properties of the participant service                                   *)
(***************************************************************************)
\* C26: at most one participant row carries a given user_id, and all the
\* get_or_create_participant calls for a user have returned the same
\* participant, however the calls overlap
C26_OneParticipantPerUser ==
    \A u \in Users :
        /\ user_rows[u] <= 1
        /\ Cardinality(granted[u]) <= 1

(***************************************************************************)
(* Properties of the rent handlers                                         *)
(***************************************************************************)
\* C27: a pay_rent call succeeds only for the property's tenant, for at least
\* one week and with a balance that covers weekly_rent * weeks; it then takes
\* exactly that amount from the balance and records it as rent, and it never
\* makes a balance larger
C27_PayRentDebitsWhatItRecords ==
    [][\A p \in Participants, weeks \in Amounts :
          (PayRent(p, weeks) /\ result'.success) =>
              /\ tenant_id = p
              /\ weeks >= 1
              /\ balance[p] >= WeeklyRent * weeks
              /\ balance'[p] = balance[p] - WeeklyRent * weeks
              /\ total_rent_collected' = total_rent_collected + WeeklyRent * weeks
              /\ \A q \in Participants : balance'[q] <= balance[q]]_vars

\* C28: a successful collect_rent adds the monthly rent, weekly_rent * 4.33,
\* to the property's recorded rent (here in hundredths) and the dividend pool
\* to its recorded dividends, and leaves a dividend event for the current
\* month; on a property that is not tenanted it fails and records nothing
C28_CollectRentRecordsBoth ==
    [][CollectRent =>
          IF result'.success
          THEN /\ status = "tenanted"
               /\ total_rent_collected' * 100 = total_rent_collected * 100 + WeeklyRent * 433
               /\ total_dividends_paid' = total_dividends_paid + dividend_pool
               /\ current_month \in db_events'
          ELSE /\ status # "tenanted"
               /\ UNCHANGED <<total_rent_collected, total_dividends_paid, db_events>>]_vars

(***************************************************************************)
(* Properties of a buy followed by a sell                                  *)
(***************************************************************************)
\* C29: a successful buy of n tokens followed by a successful sell of the
\* same n tokens restores balance, tokens_available and network_ownership
\* to what they were before the buy and removes the holding; a sell of
\* m < n leaves a holding of exactly n - m; and no holding row ever has a
\* token_amount of zero or less
C29_BuyThenSellRestores ==
    /\ [](trip.rows.has_row => trip.rows.token_amount > 0)
    /\ [][(trip.pc = "bought" /\ trip'.pc = "sold") =>
            IF trip'.sold = trip.bought
            THEN /\ trip'.rows.balance = trip.before.balance
                 /\ trip'.rows.tokens_available = trip.before.tokens_available
                 /\ trip'.rows.network_ownership = trip.before.network_ownership
                 /\ ~trip'.rows.has_row
            ELSE /\ trip'.rows.has_row
                 /\ trip'.rows.token_amount = trip.bought - trip'.sold]_vars

\* C30: in every committed state network_ownership, a number with two
\* decimals held here in hundredths, is exactly the ratio
\* (total_tokens - tokens_available) / total_tokens and lies between 0 and 1
C30_OwnershipIsTheRatio ==
    /\ network_ownership * TotalTokens = 100 * (TotalTokens - tokens_available)
    /\ network_ownership \in 0..100

(***************************************************************************)
(* Properties of the clock's modes and configuration                       *)
(***************************************************************************)
\* a step in which the tick loop starts a tick
LoopStartsTick == pc["loop"] = "idle" /\ pc'["loop"] # "idle"
\* a step in which the tick loop sends tick_warning
LoopSendsWarning == ~warning_sent /\ warning_sent'
\* a step in which runner r's tick ends by advancing the month
TickAdvances(r) == pc[r] = "complete" /\ pc'[r] = "idle"

C37_PresetAndIntervalKeepMode ==
    [][((\E preset \in Presets : SetPreset(preset))
          \/ (\E seconds \in IntervalRequests : SetInterval(seconds)))
        => UNCHANGED <<mode, current_month, task, pending_actions, is_processing>>]_vars

\* a step of POST /network/clock/reset
ResetStep == \E month \in ResetMonths, preset \in Presets : ResetClock(month, preset)

\* C35 as stated: current_month never decreases and changes only when a tick
\* ends successfully, by exactly +1; every other operation leaves it
\* unchanged
C35_MonthOnlyAdvancesByTicks ==
    [][current_month' # current_month =>
          /\ \E r \in Runners : TickAdvances(r)
          /\ current_month' = current_month + 1]_vars

\* C35: current_month changes only when a tick ends successfully, to the
\* month at which that tick began plus one, or when the reset endpoint sets
\* it; start, stop, pause, resume, set_preset, set_interval, set_mode,
\* queue_action, remove_action, clear_actions and a refused or failed tick
\* leave it unchanged
C35_MonthChangesByTickOrReset ==
    [][current_month' # current_month =>
          \/ ResetStep
          \/ \E r \in Runners :
                /\ TickAdvances(r)
                /\ current_month' = loc[r].next_month]_vars

\* a tick has advanced the month; the clock is stopped, in manual mode, with
\* another configuration and an action queued
C35_Witness ==
    /\ current_month = InitialClockMonth + 1
    /\ task = "none"
    /\ mode = "manual"
    /\ config # from_preset("demo")
    /\ pending_actions # <<>>

\* C38: whenever the clock's mode is auto, a tick-loop task is running
C38_AutoClockHasTickLoop == mode = "auto" => task = "running"

\* C36: no queued action is lost: every action that is in the queue when a
\* successful tick empties it is part of the batch that this tick handed to
\* the tick callback
C36_NoQueuedActionLost ==
    [][\A r \in Runners :
          TickAdvances(r) =>
              \A i \in 1..Len(pending_actions) :
                  \E j \in 1..Len(loc[r].actions) :
                      loc[r].actions[j] = pending_actions[i]]_vars

----------------------------------------------------------------------------
(***************************************************************************)
(* PropertyState: tenant and lease (one property)                          *)
(***************************************************************************)
AllButExtra ==
    <<clockVars, tickVars, storeVars, obsVars, busVars, ledgerVars, reqVars, answerVars,
      npcVars, authVars, trip>>

\* the last month of a lease that is given to set_tenant
LeaseEnds == InitialClockMonth..(InitialClockMonth + MaxTicks - 1)

\* PropertyStateRepository.set_tenant, for a lease that has not ended yet
SetTenant(tenant, lease_end_month) ==
    /\ lease_end_month >= current_month
    /\ lease' = [lease EXCEPT !.status = "tenanted", !.tenant_id = tenant,
                              !.lease_end_month = lease_end_month]
    /\ UNCHANGED <<AllButExtra, econ, runs>>

\* PropertyStateRepository.clear_tenant
ClearTenant ==
    /\ lease.tenant_id # "none"
    /\ lease' = [lease EXCEPT !.status = "available", !.tenant_id = "none",
                              !.lease_end_month = 0]
    /\ UNCHANGED <<AllButExtra, econ, runs>>

\* _handle_collect_rent on the property: NOT_TENANTED unless its status is
\* tenanted
LeaseCollectRent ==
    /\ lease' = [lease EXCEPT !.collect_rent =
                     IF lease.status # "tenanted" THEN "NOT_TENANTED" ELSE "success"]
    /\ UNCHANGED <<AllButExtra, econ, runs>>

\* _handle_pay_rent by participant p, whose balance covers the rent:
\* NOT_TENANT unless p is the property's tenant
LeasePayRent(p) ==
    /\ lease' = [lease EXCEPT !.pay_rent =
                     IF lease.tenant_id # p THEN "NOT_TENANT" ELSE "success"]
    /\ UNCHANGED <<AllButExtra, econ, runs>>

\* tenants come and go and rent is paid and collected while forced ticks, in
\* which no step fails, advance the clock
LeaseNext ==
    \/ ForceTick
    \/ \E r \in Runners : DrainCommit(r)
    \/ \E r \in Runners : NpcStage(r, FALSE, TRUE)
    \/ \E r \in Runners : EventStage(r, TRUE)
    \/ \E r \in Runners : MonthStage(r)
    \/ \E r \in Runners : PersistStage(r)
    \/ \E r \in Runners : CompleteTick(r)
    \/ \E tenant \in Participants, lease_end_month \in LeaseEnds :
          SetTenant(tenant, lease_end_month)
    \/ ClearTenant
    \/ LeaseCollectRent
    \/ \E p \in Participants : LeasePayRent(p)

LeaseSpec == Init /\ [][LeaseNext]_vars

\* C31: the property's status is tenanted exactly when a tenant is set and
\* lease_end_month >= current_month
C31_TenantedIffLeaseRunning ==
    (lease.status = "tenanted")
        <=> (lease.tenant_id # "none" /\ lease.lease_end_month >= current_month)

----------------------------------------------------------------------------
(***************************************************************************)
(* EventGenerator: the economic cycle and the events of a month            *)
(***************************************************************************)
\* months_in_phase is followed up to this value
MaxMonthsInPhase == 3

\* of each list of event templates, the first MaxEventTemplates are drawn
MaxEventTemplates == 3

\* the months that generate_events is called for
MaxEventMonth == 3

EventMonths == 1..MaxEventMonth

\* the outcomes of _should_trigger for the templates of one list, in order:
\* random.random() < base_prob, where 0 < base_prob < 1
TemplateDraws == [1..MaxEventTemplates -> BOOLEAN]

\* next_phase in which a phase is skipped
next_phase_Skipping(phase) ==
    CASE phase = "expansion" -> "contraction"
      [] phase = "peak" -> "contraction"
      [] phase = "contraction" -> "trough"
      [] phase = "trough" -> "recovery"
      [] phase = "recovery" -> "expansion"

\* phase_transitions[old_phase]
next_phase(phase) ==
    CASE phase = "expansion" -> "peak"
      [] phase = "peak" -> "contraction"
      [] phase = "contraction" -> "trough"
      [] phase = "trough" -> "recovery"
      [] phase = "recovery" -> "expansion"

\* confidence_after in which confidence is only ever lost
confidence_after_OnlyFalls(new_phase, confidence) ==
    IF new_phase = "contraction" THEN confidence - 15 ELSE confidence

\* "Adjust economic indicators": consumer_confidence in the new phase
confidence_after(new_phase, confidence) ==
    CASE new_phase = "contraction" -> confidence - 15
      [] new_phase = "recovery" -> confidence + 10
      [] new_phase = "expansion" -> confidence + 5
      [] OTHER -> confidence

\* _update_economic_cycle on an economic state e; transition is the outcome
\* of random.random() < transition_prob, where transition_prob is
\* min(0.3, months_in_phase * 0.02) after the increment, so never 0 or 1
update_economic_cycle(e, transition) ==
    IF transition
    THEN [e EXCEPT !.phase = next_phase(e.phase),
                   !.months_in_phase = 0,
                   !.consumer_confidence =
                       confidence_after(next_phase(e.phase), e.consumer_confidence)]
    ELSE [e EXCEPT !.months_in_phase = e.months_in_phase + 1]

\* a SimulationEvent: the template list it was created from and its category
Event(source, category) == [source |-> source, category |-> category]

\* for template in TEMPLATES: if self._should_trigger(...): append; break
RECURSIVE one_event(_, _, _, _)
one_event(draws, i, events, event) ==
    IF i > MaxEventTemplates THEN events
    ELSE IF draws[i] THEN Append(events, event)
    ELSE one_event(draws, i + 1, events, event)

\* len([e for e in events if e.category == EventCategory.PROPERTY])
property_count(events) ==
    Cardinality({k \in 1..Len(events) : events[k].category = "property"})

\* the loop over PROPERTY_EVENT_TEMPLATES without its break
RECURSIVE property_events_NoBreak(_, _, _)
property_events_NoBreak(draws, i, events) ==
    IF i > MaxEventTemplates THEN events
    ELSE IF draws[i]
         THEN property_events_NoBreak(draws, i + 1,
                                      Append(events, Event("property", "property")))
         ELSE property_events_NoBreak(draws, i + 1, events)

\* the loop over PROPERTY_EVENT_TEMPLATES: append, and break once the events
\* hold two of category property
RECURSIVE property_events(_, _, _)
property_events(draws, i, events) ==
    IF i > MaxEventTemplates THEN events
    ELSE IF draws[i]
         THEN LET appended == Append(events, Event("property", "property"))
              IN IF property_count(appended) >= 2 THEN appended
                 ELSE property_events(draws, i + 1, appended)
         ELSE property_events(draws, i + 1, events)

\* generate_events(network_month, properties, participants), up to the
\* economic cycle: the phase event, if any, is the first event
GenerateEvents(network_month, has_properties, transition) ==
    /\ econ.pc = "idle"
    /\ transition \/ econ.months_in_phase < MaxMonthsInPhase
    /\ econ' = [update_economic_cycle(econ, transition) EXCEPT
                   !.pc = "iron_ore",
                   !.network_month = network_month,
                   !.has_properties = has_properties,
                   !.events = IF transition THEN <<Event("phase", "economic")>>
                              ELSE <<>>]
    /\ UNCHANGED <<AllButExtra, lease, runs>>

\* ... the iron ore templates; _create_commodity_event gives the category
\* economic
IronOreEvents(draws) ==
    /\ econ.pc = "iron_ore"
    /\ econ' = [econ EXCEPT
                   !.pc = "population",
                   !.events = one_event(draws, 1, econ.events,
                                        Event("iron_ore", "economic"))]
    /\ UNCHANGED <<AllButExtra, lease, runs>>

\* ... the population templates, in 30% of the months
PopulationEvents(chance, draws) ==
    /\ econ.pc = "population"
    /\ econ' = [econ EXCEPT
                   !.pc = "market",
                   !.events = IF chance
                              THEN one_event(draws, 1, econ.events,
                                             Event("population", "economic"))
                              ELSE econ.events]
    /\ UNCHANGED <<AllButExtra, lease, runs>>

\* ... the market templates
MarketEvents(draws) ==
    /\ econ.pc = "market"
    /\ econ' = [econ EXCEPT
                   !.pc = "property",
                   !.events = one_event(draws, 1, econ.events,
                                        Event("market", "market"))]
    /\ UNCHANGED <<AllButExtra, lease, runs>>

\* ... the property templates, if there are properties
PropertyEvents(draws) ==
    /\ econ.pc = "property"
    /\ econ' = [econ EXCEPT
                   !.pc = "economic",
                   !.events = IF econ.has_properties
                              THEN property_events(draws, 1, econ.events)
                              ELSE econ.events]
    /\ UNCHANGED <<AllButExtra, lease, runs>>

\* ... the economic templates
EconomicEvents(draws) ==
    /\ econ.pc = "economic"
    /\ econ' = [econ EXCEPT
                   !.pc = "governance",
                   !.events = one_event(draws, 1, econ.events,
                                        Event("economic", "economic"))]
    /\ UNCHANGED <<AllButExtra, lease, runs>>

\* ... the governance templates, if network_month % 3 == 0; return events
GovernanceEvents(draws) ==
    /\ econ.pc = "governance"
    /\ econ' = [econ EXCEPT
                   !.pc = "idle",
                   !.events = IF econ.network_month % 3 = 0
                              THEN one_event(draws, 1, econ.events,
                                             Event("governance", "governance"))
                              ELSE econ.events]
    /\ UNCHANGED <<AllButExtra, lease, runs>>

\* calls of generate_events, one after the other
EventNext ==
    \/ \E network_month \in EventMonths, has_properties \in BOOLEAN,
          transition \in BOOLEAN :
          GenerateEvents(network_month, has_properties, transition)
    \/ \E draws \in TemplateDraws : IronOreEvents(draws)
    \/ \E chance \in BOOLEAN, draws \in TemplateDraws : PopulationEvents(chance, draws)
    \/ \E draws \in TemplateDraws : MarketEvents(draws)
    \/ \E draws \in TemplateDraws : PropertyEvents(draws)
    \/ \E draws \in TemplateDraws : EconomicEvents(draws)
    \/ \E draws \in TemplateDraws : GovernanceEvents(draws)

EventSpec == Init /\ [][EventNext]_vars

\* the events of the current call that were created from one template list
emitted(source) ==
    Cardinality({k \in 1..Len(econ.events) : econ.events[k].source = source})

\* C32: one generate_events call emits at most one iron-ore event, at most
\* one market event and at most two property events, and a governance event
\* only when month % 3 = 0
C32_EventCaps ==
    /\ emitted("iron_ore") <= 1
    /\ emitted("market") <= 1
    /\ emitted("property") <= 2
    /\ emitted("governance") > 0 => econ.network_month % 3 = 0

\* a call has returned one iron-ore, one market, two property events and a
\* governance event
C32_Witness ==
    /\ econ.pc = "idle"
    /\ emitted("iron_ore") = 1
    /\ emitted("market") = 1
    /\ emitted("property") = 2
    /\ emitted("governance") = 1

\* the fixed cycle
CycleSuccessor ==
    [expansion |-> "peak", peak |-> "contraction", contraction |-> "trough",
     trough |-> "recovery", recovery |-> "expansion"]

\* C39: in every generate_events call the phase either stays the same and
\* months_in_phase increases by 1, or it moves to its successor in the cycle
\* expansion, peak, contraction, trough, recovery, expansion and
\* months_in_phase is reset to 0; nothing else changes them
C39_PhaseFollowsCycle ==
    [][IF econ.pc = "idle" /\ econ'.pc # "idle"
       THEN \/ /\ econ'.phase = econ.phase
               /\ econ'.months_in_phase = econ.months_in_phase + 1
            \/ /\ econ'.phase = CycleSuccessor[econ.phase]
               /\ econ'.months_in_phase = 0
       ELSE /\ econ'.phase = econ.phase
            /\ econ'.months_in_phase = econ.months_in_phase]_vars

\* the cycle has gone from expansion through peak, contraction and trough to
\* recovery, and stayed there for a month
C39_Witness ==
    /\ econ.pc = "idle"
    /\ econ.phase = "recovery"
    /\ econ.months_in_phase = 1

\* C40: consumer_confidence stays within 0..100
C40_ConfidenceInRange == econ.consumer_confidence \in 0..100

\* the confidence lost in the contraction has been regained in part in the
\* recovery, while events were generated
C40_Witness ==
    /\ econ.phase = "recovery"
    /\ econ.consumer_confidence = InitialConfidence - 5
    /\ econ.events # <<>>

----------------------------------------------------------------------------
(***************************************************************************)
(* Two runs of the simulation on the same requests                         *)
(***************************************************************************)
\* NPC_TEMPLATES[0]["activity_level"], in tenths
ActivityLevel == 3

\* values of random.random(), in tenths; the generator is the one of the
\* random module, which no code of the program seeds
RandomDraws == {0, 5, 9}

\* values of round(random.uniform(-0.5, 1.5), 2), in hundredths
MarketChanges == {-50, 0, 150}

\* NPCBrain.should_act for an NPC without urgent goals:
\* random.random() < min(1.0, activity_level)
should_act(activity_level, draw) ==
    draw < (IF activity_level < 10 THEN activity_level ELSE 10)

\* the values that the random module hands out in one tick: to
\* _update_economic_cycle, to should_act and to generate_demo_precomputed
RandomOutcomes == [transition : BOOLEAN, act : RandomDraws, change : MarketChanges]

\* what one tick of on_tick draws and keeps in a run: the economic cycle, an
\* NPC's decision to act and market_change_percent of the pre-computed
\* results
tick_of_run(run, d) ==
    [update_economic_cycle(run, d.transition) EXCEPT
        !.acted = should_act(ActivityLevel, d.act),
        !.market_change_percent = d.change]

\* the same tick, on the same requests, in both runs; each run draws from its
\* own random module. The runs are followed up to their first difference.
TickInBothRuns(d) ==
    /\ runs[1] = runs[2]
    /\ \A i \in RunIds : d[i].transition \/ runs[i].months_in_phase < MaxMonthsInPhase
    /\ runs' = [i \in RunIds |-> tick_of_run(runs[i], d[i])]
    /\ UNCHANGED <<AllButExtra, lease, econ>>

DeterminismNext == \E d \in [RunIds -> RandomOutcomes] : TickInBothRuns(d)

DeterminismSpec == Init /\ [][DeterminismNext]_vars

\* C33: two runs that are given the same requests have the same economic
\* state, the same NPC decisions and the same market change after every tick
C33_RunsAgree == runs[1] = runs[2]

====
